---- MODULE Spec2Model ----
(***************************************************************************)
(* Multilingual prompt optimizer (package mpo): the cultural adapters, the *)
(* prompt template, and the evaluator that drives them against a model     *)
(* backend.                                                                *)
(*                                                                         *)
(* Text is modelled at character level: a Python str is a sequence of      *)
(* one-character strings.  Enum members, dictionary keys and language      *)
(* codes are TLA+ strings; Chars gives their characters where the code     *)
(* formats them into text.  A Python dict is a function whose DOMAIN is    *)
(* the set of keys present; Optional[x] is the sequence << >> or << x >>.  *)
(***************************************************************************)
EXTENDS Integers, Sequences, FiniteSets, TLC

VARIABLES
    template,    \* the PromptTemplate object the caller holds
    adapter,     \* a CulturalAdapter object the caller constructed
    evaluator,   \* the PromptEvaluator object: language_configs, _adapters
    cache,       \* the CacheManager object and the files of its directory
    tracker,     \* the ExperimentTracker object and the files of its directory
    call,        \* the last operation called and its arguments
    result       \* what that operation did: exception, return value, backend calls

vars == <<template, adapter, evaluator, cache, tracker, call, result>>

(***************************************************************************)
(* Bounds of the model.                                                    *)
(***************************************************************************)
\* template contents are concatenations of at most MaxChunks chunks
MaxChunks == 2

(***************************************************************************)
(* Python str and dict primitives.                                         *)
(***************************************************************************)
\* dict.get(k, default)
Get(d, k, default) == IF k \in DOMAIN d THEN d[k] ELSE default

\* the empty dict {}
EmptyDict == [k \in {} |-> <<>>]

\* s[i:] for an index i >= 0 (0-based, clamped like a Python slice)
SliceFrom(s, i) == SubSeq(s, i + 1, Len(s))

\* s.startswith(p)
StartsWith(s, p) == Len(p) <= Len(s) /\ SubSeq(s, 1, Len(p)) = p

\* sub in s
Contains(s, sub) ==
    \E i \in 0..(Len(s) - Len(sub)) : SubSeq(s, i + 1, i + Len(sub)) = sub

\* str.lower() on one character (ASCII letters; every other character of the
\* model's alphabet has no upper case and maps to itself)
Lower(c) ==
    CASE c = "A" -> "a" [] c = "B" -> "b" [] c = "C" -> "c" [] c = "D" -> "d"
      [] c = "E" -> "e" [] c = "F" -> "f" [] c = "G" -> "g" [] c = "H" -> "h"
      [] c = "I" -> "i" [] c = "J" -> "j" [] c = "K" -> "k" [] c = "L" -> "l"
      [] c = "M" -> "m" [] c = "N" -> "n" [] c = "O" -> "o" [] c = "P" -> "p"
      [] c = "Q" -> "q" [] c = "R" -> "r" [] c = "S" -> "s" [] c = "T" -> "t"
      [] c = "U" -> "u" [] c = "V" -> "v" [] c = "W" -> "w" [] c = "X" -> "x"
      [] c = "Y" -> "y" [] c = "Z" -> "z" [] OTHER -> c

\* whitespace characters str.strip() removes
IsSpace(c) == c \in {" ", "\n", "\t"}

\* str.strip()
RECURSIVE LStrip(_)
LStrip(s) == IF s # <<>> /\ IsSpace(s[1]) THEN LStrip(Tail(s)) ELSE s

RECURSIVE RStrip(_)
RStrip(s) ==
    IF s # <<>> /\ IsSpace(s[Len(s)]) THEN RStrip(SubSeq(s, 1, Len(s) - 1)) ELSE s

Strip(s) == RStrip(LStrip(s))

\* "".join(parts)
RECURSIVE Join(_)
Join(parts) == IF parts = <<>> THEN <<>> ELSE Head(parts) \o Join(Tail(parts))

\* str.replace(old, new) for a non-empty old: every non-overlapping occurrence,
\* scanning left to right
RECURSIVE Replace(_, _, _)
Replace(s, old, new) ==
    IF Len(s) < Len(old) THEN s
    ELSE IF SubSeq(s, 1, Len(old)) = old
         THEN new \o Replace(SliceFrom(s, Len(old)), old, new)
         ELSE <<s[1]>> \o Replace(Tail(s), old, new)

\* a call that returned v / a call that raised exception e
Return(v) == [exc |-> "none", value |-> v]
Raise(e) == [exc |-> e, value |-> <<>>]

(***************************************************************************)
(* Enumerations and the text of their values.                              *)
(***************************************************************************)
\* FormalityLevel: the members' values
FormalityLevel == {"casual", "neutral", "formal"}

\* PromptDomain: the members' values
PromptDomain == {"business", "technical", "creative", "persuasive", "instructional"}

\* AdaptationStrategy: the members' values
AdaptationStrategy == {"programmatic_only", "hybrid_sequential", "llm_only"}

\* the characters of a key, code or enum value, as an f-string formats it
Chars(x) ==
    CASE x = "casual" -> <<"c","a","s","u","a","l">>
      [] x = "neutral" -> <<"n","e","u","t","r","a","l">>
      [] x = "formal" -> <<"f","o","r","m","a","l">>
      [] x = "business" -> <<"b","u","s","i","n","e","s","s">>
      [] x = "persuasive" -> <<"p","e","r","s","u","a","s","i","v","e">>
      [] x = "en" -> <<"e","n">>
      [] x = "de" -> <<"d","e">>
      [] x = "es" -> <<"e","s">>
      [] x = "fr" -> <<"f","r">>
      [] x = "xx" -> <<"x","x">>
      [] x = "unknown" -> <<"u","n","k","n","o","w","n">>
      [] x = "test_prompt" -> <<"t","e","s","t","_","p","r","o","m","p","t">>
      [] x = "persuasive_pitch" ->
            <<"p","e","r","s","u","a","s","i","v","e","_","p","i","t","c","h">>

(***************************************************************************)
(* Language configurations (the dictionaries the adapters are built from). *)
(***************************************************************************)
\* German formality levels
GermanFormalityLevels ==
    [formal |->
        [pronoun |-> <<"S","i","e">>,
         greeting |-> <<"S","e","h","r"," ","g","e","e","h","r","t","e"," ","D","a","m","e","n",
                        " ","u","n","d"," ","H","e","r","r","e","n">>,
         closing |-> <<"H","o","c","h","a","c","h","t","u","n","g","s","v","o","l","l">>],
     neutral |->
        [pronoun |-> <<"S","i","e">>,
         greeting |-> <<"G","u","t","e","n"," ","T","a","g">>,
         closing |-> <<"M","i","t"," ","f","r","e","u","n","d","l","i","c","h","e","n"," ",
                       "G","r","ü","ß","e","n">>],
     casual |->
        [pronoun |-> <<"d","u">>,
         greeting |-> <<"H","a","l","l","o">>,
         closing |-> <<"V","i","e","l","e"," ","G","r","ü","ß","e">>]]

\* Spanish formality levels
SpanishFormalityLevels ==
    [formal |->
        [pronoun |-> <<"u","s","t","e","d">>,
         greeting |-> <<"E","s","t","i","m","a","d","o","/","a"," ","s","e","ñ","o","r","/",
                        "s","e","ñ","o","r","a">>,
         closing |-> <<"C","o","r","d","i","a","l","m","e","n","t","e">>],
     neutral |->
        [pronoun |-> <<"u","s","t","e","d">>,
         greeting |-> <<"B","u","e","n","o","s"," ","d","í","a","s">>,
         closing |-> <<"A","t","e","n","t","a","m","e","n","t","e">>],
     casual |->
        [pronoun |-> <<"t","ú">>,
         greeting |-> <<"H","o","l","a">>,
         closing |-> <<"S","a","l","u","d","o","s">>]]

\* the adapter classes the factory knows, by language code
AdapterClasses == {"en", "de", "es"}

\* the "cultural_params" values a configuration may carry for a language:
\* the full table, a table with a single formal greeting, and the empty dict
CulturalParams(code) ==
    LET levels == IF code = "es" THEN SpanishFormalityLevels ELSE GermanFormalityLevels
    IN  { [formality_levels |-> levels],
          [formality_levels |-> [formal |-> [greeting |-> levels.formal.greeting]]],
          EmptyDict }

\* the "llm_adaptation" blocks a configuration may carry
LlmAdaptationBlocks ==
    { [enabled |-> FALSE],
      [enabled |-> TRUE],
      [enabled |-> TRUE, strategy |-> "programmatic_only"] }

\* the configuration dictionaries of a language: with and without each
\* optional key; the empty dict is the configuration with no key at all
LanguageConfigs(code) ==
    {EmptyDict}
    \cup { ("code" :> code) @@ ("cultural_params" :> cp) :
              cp \in CulturalParams(code) }
    \cup { ("code" :> code) @@ ("cultural_params" :> cp) @@ ("llm_adaptation" :> llm) :
              cp \in {[formality_levels |->
                         IF code = "es" THEN SpanishFormalityLevels
                         ELSE GermanFormalityLevels]},
              llm \in LlmAdaptationBlocks }

(***************************************************************************)
(* LLMAdaptationConfig and the CulturalAdapter base class.                 *)
(***************************************************************************)
\* LLMAdaptationConfig.from_dict (the fields adapt() reads)
LLMAdaptationConfig_from_dict(data) ==
    [enabled |-> Get(data, "enabled", FALSE),
     strategy |-> Get(data, "strategy", "hybrid_sequential")]

\* CulturalAdapter.__init__ of class cls (one of AdapterClasses)
CulturalAdapter(cls, config, provider) ==
    LET llm_config_data == Get(config, "llm_adaptation", EmptyDict)
    IN  [cls |-> cls,
         config |-> config,
         language_code |-> Get(config, "code", "unknown"),
         provider |-> provider,
         llm_adaptation_config |->
            IF Get(llm_config_data, "enabled", FALSE)
            THEN <<LLMAdaptationConfig_from_dict(llm_config_data)>>
            ELSE <<>>]

\* the getters falling back on the formal entry when the requested
\* formality has none
GetCulturalParamFromFormal(self, formality, slot) ==
    LET formality_params ==
            Get(Get(self.config, "cultural_params", EmptyDict),
                "formality_levels", EmptyDict)
        formal_params == Get(formality_params, "formal", EmptyDict)
    IN  Get(Get(formality_params, formality, formal_params), slot, <<>>)

\* CulturalAdapter._get_greeting / _get_closing / _get_pronoun, by slot name
GetCulturalParam(self, formality, slot) ==
    LET formality_params ==
            Get(Get(self.config, "cultural_params", EmptyDict),
                "formality_levels", EmptyDict)
    IN  Get(Get(formality_params, formality, EmptyDict), slot, <<>>)

\* CulturalAdapter._should_use_llm_adaptation
ShouldUseLlmAdaptation(self) ==
    /\ self.llm_adaptation_config # <<>>
    /\ self.llm_adaptation_config[1].enabled
    /\ self.provider # <<>>

\* CulturalAdapter._get_strategy_name
GetStrategyName(self) ==
    IF self.llm_adaptation_config # <<>>
    THEN self.llm_adaptation_config[1].strategy
    ELSE "programmatic_only"

\* CulturalAdapter._build_adaptation_notes
BuildAdaptationNotes(self, mode, tpl, formality) ==
    LET tail == Chars(tpl.domain)
                \o <<","," ","F","o","r","m","a","l","i","t","y",":"," ">>
                \o Chars(formality)
    IN  IF mode = "hybrid"
        THEN <<"H","y","b","r","i","d"," ","a","d","a","p","t","a","t","i","o","n"," ","(">>
             \o Chars(self.language_code)
             \o <<")",":"," ","P","r","o","g","r","a","m","m","a","t","i","c"," ","s","t","r",
                  "u","c","t","u","r","e"," ","+"," ","L","L","M"," ","c","u","l","t","u","r",
                  "a","l"," ","r","e","f","i","n","e","m","e","n","t","."," ","D","o","m","a",
                  "i","n",":"," ">>
             \o tail
        ELSE IF mode = "programmatic_fallback"
        THEN <<"P","r","o","g","r","a","m","m","a","t","i","c","-","o","n","l","y"," ","a",
               "d","a","p","t","a","t","i","o","n"," ","(">>
             \o Chars(self.language_code)
             \o <<")",":"," ","L","L","M"," ","r","e","f","i","n","e","m","e","n","t"," ","f",
                  "a","i","l","e","d",","," ","u","s","i","n","g"," ","r","u","l","e","-","b",
                  "a","s","e","d"," ","o","n","l","y","."," ","D","o","m","a","i","n",":"," ">>
             \o tail
        ELSE <<"P","r","o","g","r","a","m","m","a","t","i","c","-","o","n","l","y"," ","a",
               "d","a","p","t","a","t","i","o","n"," ","(">>
             \o Chars(self.language_code)
             \o <<")",":"," ","R","u","l","e","-","b","a","s","e","d"," ","c","u","l","t","u",
                  "r","a","l"," ","t","r","a","n","s","f","o","r","m","a","t","i","o","n","s",
                  "."," ","D","o","m","a","i","n",":"," ">>
             \o tail

(***************************************************************************)
(* Phase 1: the language strategies' programmatic adaptations.             *)
(***************************************************************************)
\* an English strategy that puts the configured greeting before a neutral text
EnglishProgrammaticWithGreeting(self, tpl, formality) ==
    IF formality = "neutral"
    THEN Return(GetCulturalParam(self, formality, "greeting") \o tpl.content)
    ELSE Return(tpl.content)

\* EnglishAdapter._apply_programmatic_adaptations
EnglishProgrammatic(self, tpl, formality) ==
    LET content == tpl.content
    IN  IF formality = "formal"
        THEN IF ~ \E p \in {<<"D","e","a","r">>, <<"H","e","l","l","o">>,
                            <<"G","r","e","e","t","i","n","g","s">>} : StartsWith(content, p)
             THEN IF content = <<>>
                  THEN Raise("IndexError")     \* content.lower()[0] of ""
                  ELSE Return(<<"P","l","e","a","s","e"," ">>
                              \o <<Lower(content[1])>> \o SliceFrom(content, 1))
             ELSE Return(content)
        ELSE IF formality = "casual"
        THEN IF StartsWith(content, <<"P","l","e","a","s","e"," ">>)
             THEN Return(SliceFrom(content, 7))
             ELSE Return(content)
        ELSE Return(content)

\* GermanAdapter: a framing clause that is the casual one at every formality
GermanFramingAlwaysCasual(formality) ==
    <<"\n","K","u","r","z","e"," ","F","r","a","g","e",":">>

\* GermanAdapter: the context-setting clause of a formality level
GermanFraming(formality) ==
    IF formality = "formal"
    THEN <<"\n","I","c","h"," ","m","ö","c","h","t","e"," ","S","i","e"," ","u","m"," ","F",
           "o","l","g","e","n","d","e","s"," ","b","i","t","t","e","n",":">>
    ELSE IF formality = "neutral"
    THEN <<"\n","I","c","h"," ","b","i","t","t","e"," ","u","m"," ","F","o","l","g","e","n",
           "d","e","s",":">>
    ELSE <<"\n","K","u","r","z","e"," ","F","r","a","g","e",":">>

\* GermanAdapter._apply_programmatic_adaptations with the content's first
\* character lower-cased, as the English strategy does behind "Please "
GermanProgrammaticLowerCasing(self, tpl, formality) ==
    LET content == IF tpl.content = <<>> THEN <<>>
                   ELSE <<Lower(tpl.content[1])>> \o SliceFrom(tpl.content, 1)
        greeting == GetCulturalParam(self, formality, "greeting")
        closing == GetCulturalParam(self, formality, "closing")
    IN  Return(Join((IF greeting # <<>> THEN <<greeting>> ELSE <<>>)
                    \o <<GermanFraming(formality)>>
                    \o << <<"\n">> \o content >>
                    \o (IF closing # <<>> THEN << <<"\n","\n">> \o closing >> ELSE <<>>)))

\* GermanAdapter._apply_programmatic_adaptations
GermanProgrammatic(self, tpl, formality) ==
    LET content == tpl.content
        greeting == GetCulturalParam(self, formality, "greeting")
        closing == GetCulturalParam(self, formality, "closing")
        adapted_parts ==
            (IF greeting # <<>> THEN <<greeting>> ELSE <<>>)
            \o <<GermanFraming(formality)>>
            \o << <<"\n">> \o content >>
            \o (IF closing # <<>> THEN << <<"\n","\n">> \o closing >> ELSE <<>>)
    IN  Return(Join(adapted_parts))

\* SpanishAdapter: the relational preamble of a formality level
SpanishPreamble(formality) ==
    IF formality = "formal"
    THEN << <<"\n","\n","E","s","p","e","r","o"," ","q","u","e"," ","s","e"," ","e","n","c",
              "u","e","n","t","r","e"," ","b","i","e","n",".">>,
            <<"\n","M","e"," ","d","i","r","i","j","o"," ","a"," ","u","s","t","e","d"," ",
              "p","a","r","a"," ","s","o","l","i","c","i","t","a","r"," ","l","o"," ","s",
              "i","g","u","i","e","n","t","e",":">> >>
    ELSE IF formality = "neutral"
    THEN << <<"\n","\n","E","s","p","e","r","o"," ","q","u","e"," ","e","s","t","é"," ","b",
              "i","e","n",".">>,
            <<"\n","L","e"," ","e","s","c","r","i","b","o"," ","p","a","r","a"," ","p","e",
              "d","i","r","l","e"," ","l","o"," ","s","i","g","u","i","e","n","t","e",":">> >>
    ELSE << <<"\n","\n","¿","Q","u","é"," ","t","a","l","?"," ","T","e"," ","e","s","c","r",
              "i","b","o"," ","p","o","r","q","u","e",":">> >>

\* SpanishAdapter: the proactive gratitude line
SpanishGratitude ==
    <<"\n","\n","A","g","r","a","d","e","z","c","o"," ","d","e"," ","a","n","t","e","m","a",
      "n","o"," ","s","u"," ","a","t","e","n","c","i","ó","n"," ","y"," ","t","i","e","m","p",
      "o",".">>

\* SpanishAdapter._apply_programmatic_adaptations with the gratitude line
\* added at every formality
SpanishProgrammaticAlwaysGrateful(self, tpl, formality) ==
    LET greeting == GetCulturalParam(self, formality, "greeting")
        closing == GetCulturalParam(self, formality, "closing")
    IN  Return(Join((IF greeting # <<>> THEN <<greeting>> ELSE <<>>)
                    \o SpanishPreamble(formality)
                    \o << <<"\n">> \o tpl.content >>
                    \o <<SpanishGratitude>>
                    \o (IF closing # <<>> THEN << <<"\n">> \o closing >> ELSE <<>>)))

\* SpanishAdapter._apply_programmatic_adaptations
SpanishProgrammatic(self, tpl, formality) ==
    LET content == tpl.content
        greeting == GetCulturalParam(self, formality, "greeting")
        closing == GetCulturalParam(self, formality, "closing")
        adapted_parts ==
            (IF greeting # <<>> THEN <<greeting>> ELSE <<>>)
            \o SpanishPreamble(formality)
            \o << <<"\n">> \o content >>
            \o (IF formality \in {"formal", "neutral"} THEN <<SpanishGratitude>> ELSE <<>>)
            \o (IF closing # <<>> THEN << <<"\n">> \o closing >> ELSE <<>>)
    IN  Return(Join(adapted_parts))

\* self._apply_programmatic_adaptations, dispatched on the adapter's class
ApplyProgrammaticAdaptations(self, tpl, formality) ==
    CASE self.cls = "en" -> EnglishProgrammatic(self, tpl, formality)
      [] self.cls = "de" -> GermanProgrammatic(self, tpl, formality)
      [] self.cls = "es" -> SpanishProgrammatic(self, tpl, formality)

(***************************************************************************)
(* Phase 2: refinement by the model backend, and adapt().                  *)
(***************************************************************************)
\* self._build_llm_adaptation_prompt: the refinement instruction, by the values
\* its f-string interpolates (the fixed instruction text is left out)
BuildLlmAdaptationPrompt(self, programmatic_output, tpl, formality) ==
    [language |-> self.cls,
     pronoun |-> IF self.cls = "en" THEN <<>>
                 ELSE GetCulturalParam(self, formality, "pronoun"),
     domain |-> tpl.domain,
     formality |-> formality,
     input |-> programmatic_output]

\* what a backend may do with one generate call: raise, return a result
\* without the 'content' key, return the prompt's input padded with white
\* space, or return a text of its own
BackendBehaviours ==
    { [kind |-> k, text |-> <<>>] : k \in {"raise", "no_content", "echo"} }
    \cup { [kind |-> "text", text |-> t] :
             t \in { <<" ","H","a","l","l","o","\n">> } }

\* the result dictionary of a generate call with the given content
GenerateResult(content) ==
    [content |-> content, tokens_input |-> 1, tokens_output |-> 1, model |-> "model",
     timestamp |-> "timestamp", metadata |-> [provider |-> "provider"]]

\* provider.generate(prompt, config) of a backend with behaviour b
Generate(prompt, b) ==
    CASE b.kind = "raise" -> Raise("Exception")
      [] b.kind = "no_content" ->
            Return([key \in DOMAIN GenerateResult(<<>>) \ {"content"} |->
                        GenerateResult(<<>>)[key]])
      [] b.kind = "echo" -> Return(GenerateResult(<<" ">> \o prompt.input \o <<"\n">>))
      [] b.kind = "text" -> Return(GenerateResult(b.text))

\* CulturalAdapter._apply_llm_adaptation
ApplyLlmAdaptation(self, programmatic_output, tpl, formality, b) ==
    LET llm_prompt == BuildLlmAdaptationPrompt(self, programmatic_output, tpl, formality)
        generated == Generate(llm_prompt, b)
    IN  IF generated.exc # "none" THEN Raise(generated.exc)
        ELSE IF "content" \notin DOMAIN generated.value THEN Raise("KeyError")
        ELSE Return(Strip(generated.value.content))

\* the PromptVariant constructor (the timestamp, which nothing modelled here
\* reads, is left out)
PromptVariant(template_id, language, formality, adapted_content, adaptation_notes, metadata) ==
    [template_id |-> template_id,
     language |-> language,
     formality |-> formality,
     adapted_content |-> adapted_content,
     adaptation_notes |-> adaptation_notes,
     metadata |-> metadata]

\* the metadata adapt() attaches to the variant
VariantMetadata(self) == [strategy |-> GetStrategyName(self)]

\* CulturalAdapter.adapt against a backend with behaviour b: the exception
\* raised or the variant returned, and the prompts sent to the backend
Adapt(self, tpl, formality, b) ==
    LET programmatic == ApplyProgrammaticAdaptations(self, tpl, formality)
        programmatic_output == programmatic.value
        refined == ApplyLlmAdaptation(self, programmatic_output, tpl, formality, b)
        used_llm == ShouldUseLlmAdaptation(self)
        final_output ==
            IF used_llm /\ refined.exc = "none" THEN refined.value
            ELSE programmatic_output
        mode ==
            IF used_llm
            THEN IF refined.exc = "none" THEN "hybrid" ELSE "programmatic_fallback"
            ELSE "programmatic"
    IN  IF programmatic.exc # "none"
        THEN [exc |-> programmatic.exc, value |-> <<>>, prompts |-> <<>>]
        ELSE [exc |-> "none",
              value |-> <<PromptVariant(tpl.id, self.language_code, formality,
                                        final_output,
                                        BuildAdaptationNotes(self, mode, tpl, formality),
                                        VariantMetadata(self))>>,
              prompts |->
                 IF used_llm
                 THEN <<BuildLlmAdaptationPrompt(self, programmatic_output, tpl, formality)>>
                 ELSE <<>>]

(***************************************************************************)
(* The objects a caller works with, and the adapter operations.            *)
(***************************************************************************)
\* the pieces template contents are put together from
ContentChunks ==
    { <<"P","l","e","a","s","e"," ">>, <<"D","e","a","r">>, <<"S","e","n","d">>,
      <<"s","e","n","d">>, <<"{","N","}">> }

\* the concatenations of at most n chunks
RECURSIVE ChunkStrings(_)
ChunkStrings(n) ==
    IF n = 0 THEN { <<>> }
    ELSE LET shorter == ChunkStrings(n - 1)
         IN  shorter \cup { c \o s : c \in ContentChunks, s \in shorter }

\* template contents
Contents == ChunkStrings(MaxChunks)

\* the PromptTemplate constructor; placeholders is the mapping in insertion
\* order, a sequence of <<key, default value>> pairs with distinct keys
PromptTemplate(id, content, domain, placeholders) ==
    [id |-> id, content |-> content, domain |-> domain, placeholders |-> placeholders]

\* the templates adapters are called with
AdaptTemplates ==
    { PromptTemplate("test_prompt", c, "business", <<>>) : c \in Contents }

\* the adapters a caller may construct: any class, any configuration of the
\* class's language, with or without a provider
Adapters ==
    UNION { { CulturalAdapter(cls, config, provider) :
                config \in LanguageConfigs(cls),
                provider \in { <<>>, <<"provider">> } } :
            cls \in AdapterClasses }

\* an evaluator nothing has been asked of
NoEvaluator == [language_configs |-> EmptyDict, adapters |-> EmptyDict]

\* no cache manager and no experiment tracker constructed
NoCache == [constructed |-> FALSE]
NoTracker == [constructed |-> FALSE]

\* no operation called yet
NoCall == [op |-> "none"]
NoResult == [exc |-> "none", value |-> <<>>, prompts |-> <<>>, backend |-> "not_called"]

InitAdapter ==
    /\ template \in AdaptTemplates
    /\ adapter \in Adapters
    /\ evaluator = NoEvaluator
    /\ cache = NoCache
    /\ tracker = NoTracker
    /\ call = NoCall
    /\ result = NoResult

\* adapter.adapt(template, formality), the backend behaving as b if called
AdaptCall ==
    \E formality \in FormalityLevel, b \in BackendBehaviours :
        LET r == Adapt(adapter, template, formality, b)
        IN  \* a backend that is not called shows no behaviour
            /\ b.kind = "raise" \/ r.prompts # <<>>
            /\ call' = [op |-> "adapt", formality |-> formality]
            /\ result' = [exc |-> r.exc, value |-> r.value, prompts |-> r.prompts,
                          backend |-> IF r.prompts = <<>> THEN "not_called" ELSE b.kind]
            /\ UNCHANGED <<template, adapter, evaluator, cache, tracker>>

\* a phase-1 call that writes the adapted text back into the template
ProgrammaticCallWritingBack ==
    \E formality \in FormalityLevel :
        LET r == ApplyProgrammaticAdaptations(adapter, template, formality)
        IN  /\ call' = [op |-> "programmatic", formality |-> formality]
            /\ result' = [exc |-> r.exc, value |-> r.value, prompts |-> <<>>,
                          backend |-> "not_called"]
            /\ template' = [template EXCEPT !.content = r.value]
            /\ UNCHANGED <<adapter, evaluator, cache, tracker>>

\* adapter._apply_programmatic_adaptations(template, formality) called directly
ProgrammaticCall ==
    \E formality \in FormalityLevel :
        LET r == ApplyProgrammaticAdaptations(adapter, template, formality)
        IN  /\ call' = [op |-> "programmatic", formality |-> formality]
            /\ result' = [exc |-> r.exc, value |-> r.value, prompts |-> <<>>,
                          backend |-> "not_called"]
            /\ UNCHANGED <<template, adapter, evaluator, cache, tracker>>

NextAdapter == AdaptCall \/ ProgrammaticCall

SpecAdapter == InitAdapter /\ [][NextAdapter]_vars

(***************************************************************************)
(* Properties of the adapters (SpecAdapter).                               *)
(***************************************************************************)
\* the placeholder token of a key, "{key}"
Token(key) == <<"{">> \o key \o <<"}">>

\* the placeholder names template contents are written with
PlaceholderNames == { <<"N">> }

\* the last operation was adapt() and it returned a variant
AdaptReturned == call.op = "adapt" /\ result.exc = "none" /\ result.value # <<>>

\* the phase-1 text of the last call's template and formality
Phase1OfCall == ApplyProgrammaticAdaptations(adapter, template, call.formality)

\* C1: with refinement enabled and a backend that raises on every generate
\* call (or returns a result without 'content'), adapt() raises nothing and
\* returns a variant whose adapted_content is the phase-1 output.
C1_FallbackToPhase1 ==
    (/\ call.op = "adapt"
     /\ ShouldUseLlmAdaptation(adapter)
     /\ result.backend \in {"not_called", "raise", "no_content"})
    => /\ result.exc = "none"
       /\ result.value # <<>>
       /\ Phase1OfCall.exc = "none"
       /\ result.value[1].adapted_content = Phase1OfCall.value

\* C2: the variant's metadata records the path the call took: not hybrid
\* when the backend failed in phase 2, programmatic-only when phase 2 was
\* not attempted, hybrid only when phase 2 ran and succeeded.
C2_MetadataRecordsPath ==
    AdaptReturned =>
        LET strategy == result.value[1].metadata.strategy
            attempted == result.prompts # <<>>
            succeeded == attempted /\ result.backend \in {"echo", "text"}
        IN  /\ (attempted /\ ~succeeded) => strategy # "hybrid_sequential"
            /\ ~attempted => strategy = "programmatic_only"
            /\ strategy = "hybrid_sequential" => succeeded

\* C3: adapt() always returns a variant and never raises, for every
\* adapter, formality, template content and backend behaviour.
C3_AdaptNeverRaises ==
    call.op = "adapt" => (result.exc = "none" /\ result.value # <<>>)

\* C4: every placeholder token of the template content occurs verbatim in
\* the adapted_content of the returned variant, on every path.
C4_PlaceholdersPreserved ==
    AdaptReturned =>
        \A key \in PlaceholderNames :
            Contains(template.content, Token(key))
                => Contains(result.value[1].adapted_content, Token(key))

\* C5 as stated: for every language strategy and formality level, the
\* phase-1 output contains the template content unchanged and contiguous.
C5_ContentKeptByEveryStrategy ==
    (call.op = "programmatic" /\ result.exc = "none")
        => Contains(result.value, template.content)

\* the English strategy leaves the content's characters as they are: it
\* neither lower-cases an upper-case first character nor strips "Please "
EnglishKeepsContent(content, formality) ==
    CASE formality = "neutral" -> TRUE
      [] formality = "formal" ->
            \/ \E p \in {<<"D","e","a","r">>, <<"H","e","l","l","o">>,
                         <<"G","r","e","e","t","i","n","g","s">>} : StartsWith(content, p)
            \/ (content # <<>> /\ Lower(content[1]) = content[1])
      [] formality = "casual" -> ~StartsWith(content, <<"P","l","e","a","s","e"," ">>)

\* C5 amended: the German and Spanish strategies at every formality level,
\* and the English strategy whenever it neither lower-cases the first
\* character nor strips a leading "Please ", return a phase-1 output that
\* contains the template content unchanged and contiguous.
C5_ContentKept ==
    (/\ call.op = "programmatic"
     /\ adapter.cls \in {"de", "es"} \/ EnglishKeepsContent(template.content, call.formality))
    => (result.exc = "none" /\ Contains(result.value, template.content))

\* C5 witnesses: a German phase-1 output around a content with a placeholder
C5_Witness ==
    /\ call.op = "programmatic"
    /\ adapter.cls = "de"
    /\ call.formality = "formal"
    /\ GetCulturalParam(adapter, "formal", "greeting") # <<>>
    /\ Contains(template.content, Token(<<"N">>))
    /\ Len(result.value) > Len(template.content)

Keys(m) == { m[i][1] : i \in DOMAIN m }

\* m[key]
Lookup(m, key) == LET i == CHOOSE i \in DOMAIN m : m[i][1] = key IN m[i][2]

\* {**base, **extra}: base's keys keep their position and take extra's value,
\* extra's new keys follow in extra's order
DictMerge(base, extra) ==
    [i \in DOMAIN base |->
        <<base[i][1],
          IF base[i][1] \in Keys(extra) THEN Lookup(extra, base[i][1]) ELSE base[i][2]>>]
    \o SelectSeq(extra, LAMBDA pair : pair[1] \notin Keys(base))

\* {**extra, **base}: the precedence reversed
DictMergeDefaultsWin(base, extra) ==
    [i \in DOMAIN extra |->
        <<extra[i][1],
          IF extra[i][1] \in Keys(base) THEN Lookup(base, extra[i][1]) ELSE extra[i][2]>>]
    \o SelectSeq(base, LAMBDA pair : pair[1] \notin Keys(extra))

\* the values of a render with the defaults taking precedence
RenderValuesDefaultsWin(placeholders, kwargs) == DictMergeDefaultsWin(placeholders, kwargs)

\* the values of a render: {**self.placeholders, **kwargs}
RenderValues(placeholders, kwargs) == DictMerge(placeholders, kwargs)

\* str.replace(old, new, 1): the first occurrence only
RECURSIVE ReplaceFirst(_, _, _)
ReplaceFirst(s, old, new) ==
    IF Len(s) < Len(old) THEN s
    ELSE IF SubSeq(s, 1, Len(old)) = old
         THEN new \o SliceFrom(s, Len(old))
         ELSE <<s[1]>> \o ReplaceFirst(Tail(s), old, new)

\* a loop body that replaces the first occurrence only
ReplaceTokenOnce(rendered, key, value) == ReplaceFirst(rendered, Token(key), value)

\* one pass of render's loop body
ReplaceToken(rendered, key, value) == Replace(rendered, Token(key), value)

\* the loop of render: one replace per key, in the mapping's order
RECURSIVE RenderLoop(_, _)
RenderLoop(rendered, values) ==
    IF values = <<>> THEN rendered
    ELSE RenderLoop(ReplaceToken(rendered, Head(values)[1], Head(values)[2]),
                    Tail(values))

\* PromptTemplate.render(**kwargs)
Render(self, kwargs) ==
    Return(RenderLoop(self.content, RenderValues(self.placeholders, kwargs)))

\* contents of the templates rendered: concatenations of at most
\* MaxRenderChunks of these pieces
MaxRenderChunks == 3

RenderChunks ==
    { <<"{","a","}">>, <<"{","b","}">>, <<"{","u","}">>, <<"{">>, <<"b","}">> }

RECURSIVE RenderStrings(_)
RenderStrings(n) ==
    IF n = 0 THEN { <<>> }
    ELSE LET shorter == RenderStrings(n - 1)
         IN  shorter \cup { c \o t : c \in RenderChunks, t \in shorter }

\* default values of placeholders
DefaultValues == { <<>>, <<"x">>, <<"{","a","}">> }

\* placeholder mappings over the names a and b, in either order
PlaceholderMappings ==
    { <<>> }
    \cup { << <<k, v>> >> : k \in { <<"a">>, <<"b">> }, v \in DefaultValues }
    \cup { << <<k, v>>, <<(IF k = <<"a">> THEN <<"b">> ELSE <<"a">>), w>> >> :
             k \in { <<"a">>, <<"b">> }, v \in DefaultValues, w \in DefaultValues }

\* the templates rendered
RenderTemplates ==
    { PromptTemplate("test_prompt", c, "business", m) :
          c \in RenderStrings(MaxRenderChunks), m \in PlaceholderMappings }

\* the keyword arguments render is called with
RenderKwargs ==
    { <<>>,
      << <<<<"a">>, <<"y">>>> >>,
      << <<<<"a">>, <<"{","b","}">>>> >>,
      << <<<<"b">>, <<"y">>>> >>,
      << <<<<"u">>, <<"y">>>> >> }

\* an adapter nothing is asked of
NoAdapter == CulturalAdapter("en", EmptyDict, <<>>)

InitTemplate ==
    /\ template \in RenderTemplates
    /\ adapter = NoAdapter
    /\ evaluator = NoEvaluator
    /\ cache = NoCache
    /\ tracker = NoTracker
    /\ call = NoCall
    /\ result = NoResult

\* template.render(**kwargs)
RenderCall ==
    \E kwargs \in RenderKwargs :
        LET r == Render(template, kwargs)
        IN  /\ call' = [op |-> "render", kwargs |-> kwargs]
            /\ result' = [exc |-> r.exc, value |-> r.value, prompts |-> <<>>,
                          backend |-> "not_called"]
            /\ UNCHANGED <<template, adapter, evaluator, cache, tracker>>

NextTemplate == RenderCall

SpecTemplate == InitTemplate /\ [][NextTemplate]_vars

(***************************************************************************)
(* Properties of render (SpecTemplate).                                    *)
(***************************************************************************)
\* the text has no brace character
BraceFree(text) == \A i \in DOMAIN text : text[i] \notin {"{", "}"}

\* no "{" of the text lies inside an unclosed "{": tokens are not nested
RECURSIVE NoOpenBraceWhile(_, _)
NoOpenBraceWhile(open, text) ==
    IF text = <<>> THEN TRUE
    ELSE IF text[1] = "{" THEN ~open /\ NoOpenBraceWhile(TRUE, Tail(text))
    ELSE IF text[1] = "}" THEN NoOpenBraceWhile(FALSE, Tail(text))
    ELSE NoOpenBraceWhile(open, Tail(text))

TokensNotNested(text) == NoOpenBraceWhile(FALSE, text)

\* the names render is called with or may meet in a content
RenderNames == { <<"a">>, <<"b">>, <<"u">> }

\* C7 as stated: the rendered text contains no {key} for any key of the
\* template's placeholder mapping, whatever the replacement values are.
C7_NoKnownTokenLeftEver ==
    call.op = "render" =>
        \A key \in Keys(template.placeholders) : ~Contains(result.value, Token(key))

\* C7 amended: when no replacement value (default or override) contains a
\* brace and the content's tokens are not nested, the rendered text contains
\* no {key} for any key of the template's placeholder mapping.
C7_NoKnownTokenLeft ==
    (/\ call.op = "render"
     /\ TokensNotNested(template.content)
     /\ LET values == RenderValues(template.placeholders, call.kwargs)
        IN  \A i \in DOMAIN values : BraceFree(values[i][2]))
    => \A key \in Keys(template.placeholders) : ~Contains(result.value, Token(key))

\* C7 witness: a content with both tokens, twice {a}, rendered with plain values
C7_Witness ==
    /\ call.op = "render"
    /\ template.content = <<"{","a","}","{","b","}","{","a","}">>
    /\ template.placeholders = << <<<<"b">>, <<"x">>>>, <<<<"a">>, <<>>>> >>
    /\ call.kwargs = << <<<<"a">>, <<"y">>>> >>
    /\ result.value = <<"y","x","y">>

\* the template with the default value of key set to value
WithDefault(tpl, key, value) ==
    [tpl EXCEPT !.placeholders =
        [i \in DOMAIN tpl.placeholders |->
            IF tpl.placeholders[i][1] = key THEN <<key, value>> ELSE tpl.placeholders[i]]]

\* C8: render never fails on missing values: it raises nothing, a token
\* whose name is in neither mapping stays in the result verbatim, an
\* override takes precedence over the default of the same key (the default
\* has no influence on the result), and the template is left unchanged.
C8_RenderLeavesUnknownTokens ==
    [][ call'.op = "render" =>
          /\ template' = template
          /\ result'.exc = "none"
          /\ \A name \in RenderNames :
                (/\ name \notin Keys(template.placeholders) \cup Keys(call'.kwargs)
                 /\ Contains(template.content, Token(name)))
                => Contains(result'.value, Token(name))
          /\ \A key \in Keys(template.placeholders) \cap Keys(call'.kwargs) :
                /\ \A other \in DefaultValues :
                      Render(WithDefault(template, key, other), call'.kwargs).value
                          = result'.value
                /\ Keys(template.placeholders) = {key}
                      => result'.value = Replace(template.content, Token(key),
                                                 Lookup(call'.kwargs, key)) ]_vars

\* C8 witness: an unknown token kept beside an overridden default
C8_Witness ==
    /\ call.op = "render"
    /\ template.content = <<"{","u","}","{","a","}">>
    /\ template.placeholders = << <<<<"a">>, <<"x">>>> >>
    /\ call.kwargs = << <<<<"a">>, <<"y">>>> >>
    /\ result.value = <<"{","u","}","y">>

(***************************************************************************)
(* PromptEvaluator (SpecEvaluator).                                        *)
(***************************************************************************)
\* constants.LANGUAGE_NAMES
LANGUAGE_NAMES == [en |-> "English", de |-> "German", es |-> "Spanish", fr |-> "French"]

\* constants.FORMALITY_GUIDANCE
FORMALITY_GUIDANCE ==
    [formal |-> "Use professional, business-appropriate language. Avoid excessive politeness.",
     neutral |-> "Use standard professional language.",
     casual |-> "Use conversational, friendly language."]

\* constants.get_formality_guidance(formality)
GetFormalityGuidance(formality) ==
    IF formality \in DOMAIN FORMALITY_GUIDANCE
    THEN Return(FORMALITY_GUIDANCE[formality])
    ELSE Raise("ValueError")

\* a get_adapter that falls back to the English adapter for an unknown code
FactoryGetAdapterDefaultingToEnglish(language_code, config, provider) ==
    IF language_code \notin AdapterClasses
    THEN Return(CulturalAdapter("en", config, provider))
    ELSE Return(CulturalAdapter(language_code, config, provider))

\* factory.get_adapter(language_code, config, provider)
FactoryGetAdapter(language_code, config, provider) ==
    IF language_code \notin AdapterClasses
    THEN Raise("ValueError")
    ELSE Return(CulturalAdapter(language_code, config, provider))

\* PromptEvaluator(provider, language_configs)
PromptEvaluator(language_configs) ==
    [language_configs |-> language_configs, adapters |-> EmptyDict]

\* the value of a local variable, given as the set of that value alone
Only(S) == CHOOSE x \in S : TRUE

\* a _get_adapter that makes room in the memo before it builds the adapter
GetAdapterMemoizingFirst(self, language_code) ==
    IF language_code \in DOMAIN self.adapters
    THEN [exc |-> "none", value |-> self.adapters[language_code], self |-> self]
    ELSE IF language_code \notin DOMAIN self.language_configs
    THEN [exc |-> "ValueError", value |-> <<>>,
          self |-> [self EXCEPT !.adapters = (language_code :> NoAdapter) @@ @]]
    ELSE Only({ IF made.exc # "none"
                THEN [exc |-> made.exc, value |-> <<>>,
                      self |-> [self EXCEPT !.adapters =
                                   (language_code :> NoAdapter) @@ @]]
                ELSE [exc |-> "none", value |-> made.value,
                      self |-> [self EXCEPT !.adapters =
                                   (language_code :> made.value) @@ @]]
                : made \in {FactoryGetAdapter(language_code,
                                              self.language_configs[language_code],
                                              <<>>)} })

\* a _get_adapter whose memo keeps the most recent adapter only
GetAdapterKeepingOne(self, language_code) ==
    IF language_code \in DOMAIN self.adapters
    THEN [exc |-> "none", value |-> self.adapters[language_code], self |-> self]
    ELSE IF language_code \notin DOMAIN self.language_configs
    THEN [exc |-> "ValueError", value |-> <<>>, self |-> self]
    ELSE Only({ IF made.exc # "none"
                THEN [exc |-> made.exc, value |-> <<>>, self |-> self]
                ELSE [exc |-> "none", value |-> made.value,
                      self |-> [self EXCEPT !.adapters = (language_code :> made.value)]]
                : made \in {FactoryGetAdapter(language_code,
                                              self.language_configs[language_code],
                                              <<>>)} })

\* a _get_adapter that hands the evaluator's provider on to the adapter
GetAdapterSharingProvider(self, language_code) ==
    IF language_code \in DOMAIN self.adapters
    THEN [exc |-> "none", value |-> self.adapters[language_code], self |-> self]
    ELSE IF language_code \notin DOMAIN self.language_configs
    THEN [exc |-> "ValueError", value |-> <<>>, self |-> self]
    ELSE Only({ IF made.exc # "none"
                THEN [exc |-> made.exc, value |-> <<>>, self |-> self]
                ELSE [exc |-> "none", value |-> made.value,
                      self |-> [self EXCEPT !.adapters =
                                   (language_code :> made.value) @@ @]]
                : made \in {FactoryGetAdapter(language_code,
                                              self.language_configs[language_code],
                                              <<"provider">>)} })

\* PromptEvaluator._get_adapter(language_code): the adapter or the exception,
\* and the evaluator as the call leaves it; made is what get_adapter returns
GetAdapter(self, language_code) ==
    IF language_code \in DOMAIN self.adapters
    THEN [exc |-> "none", value |-> self.adapters[language_code], self |-> self]
    ELSE IF language_code \notin DOMAIN self.language_configs
    THEN [exc |-> "ValueError", value |-> <<>>, self |-> self]
    ELSE Only({ IF made.exc # "none"
                THEN [exc |-> made.exc, value |-> <<>>, self |-> self]
                ELSE [exc |-> "none", value |-> made.value,
                      self |-> [self EXCEPT !.adapters =
                                   (language_code :> made.value) @@ @]]
                : made \in {FactoryGetAdapter(language_code,
                                              self.language_configs[language_code],
                                              <<>>)} })

\* return adapter.adapt(template, formality), for what _get_adapter gave
AdaptWith(got, tpl, formality, b) ==
    IF got.exc # "none"
    THEN [exc |-> got.exc, value |-> <<>>, self |-> got.self, prompts |-> <<>>]
    ELSE Only({ [exc |-> r.exc, value |-> r.value, self |-> got.self,
                 prompts |-> r.prompts]
                : r \in {Adapt(got.value, tpl, formality, b)} })

\* PromptEvaluator.adapt_prompt(template, language, formality); b is the
\* behaviour of the backend, should the adapter reach one
AdaptPrompt(self, tpl, language, formality, b) ==
    Only({ AdaptWith(got, tpl, formality, b) : got \in {GetAdapter(self, language)} })

\* the prompt evaluate_variant sends: the values interpolated into its text
InstructedPrompt(target_language, formality_note, adapted_content) ==
    [target_language |-> target_language, formality_note |-> formality_note,
     input |-> adapted_content]

\* f"{variant.template_id}_{variant.language}_{variant.formality.value}"
VariantId(variant) ==
    Chars(variant.template_id) \o <<"_">> \o Chars(variant.language) \o <<"_">>
        \o Chars(variant.formality)

\* the keys of the result dictionary LLMResponse is built from
RequiredResultKeys == {"content", "model", "tokens_input", "tokens_output", "timestamp"}

\* LLMResponse(...) as evaluate_variant builds it from a result dictionary
LLMResponse(variant, res) ==
    [variant_id |-> VariantId(variant),
     content |-> res.content,
     model |-> res.model,
     tokens_input |-> res.tokens_input,
     tokens_output |-> res.tokens_output,
     timestamp |-> res.timestamp,
     metadata |-> [language |-> variant.language, formality |-> variant.formality,
                   adaptation_notes |-> variant.adaptation_notes]
                  @@ Get(res, "metadata", EmptyDict)]

\* the prompt evaluate_variant builds for a variant, or the exception of
\* get_formality_guidance
BuildInstructedPrompt(variant) ==
    Only({ IF formality_note.exc # "none" THEN Raise(formality_note.exc)
           ELSE Return(InstructedPrompt(
                           Get(LANGUAGE_NAMES, variant.language, variant.language),
                           formality_note.value, variant.adapted_content))
           : formality_note \in {GetFormalityGuidance(variant.formality)} })

\* a response built of the adapted content when the generation fails
RespondWithFallback(variant, instructed_prompt, res) ==
    [exc |-> IF res.exc # "none" THEN "none"
             ELSE IF RequiredResultKeys \subseteq DOMAIN res.value THEN "none"
             ELSE "KeyError",
     value |-> IF res.exc # "none"
               THEN <<LLMResponse(variant, GenerateResult(variant.adapted_content))>>
               ELSE IF RequiredResultKeys \subseteq DOMAIN res.value
               THEN <<LLMResponse(variant, res.value)>>
               ELSE <<>>,
     prompts |-> <<instructed_prompt>>]

\* evaluate_variant after generate: the exception of generate, the KeyError
\* of a result without a required key, or the response
Respond(variant, instructed_prompt, res) ==
    [exc |-> IF res.exc # "none" THEN res.exc
             ELSE IF RequiredResultKeys \subseteq DOMAIN res.value THEN "none"
             ELSE "KeyError",
     value |-> IF res.exc = "none" /\ RequiredResultKeys \subseteq DOMAIN res.value
               THEN <<LLMResponse(variant, res.value)>>
               ELSE <<>>,
     prompts |-> <<instructed_prompt>>]

\* an evaluate_variant that answers a failed generation with the adapted
\* content instead of failing
EvaluateVariantWithFallback(self, variant, b) ==
    Only({ IF instructed_prompt.exc # "none"
           THEN [exc |-> instructed_prompt.exc, value |-> <<>>, prompts |-> <<>>]
           ELSE Only({ RespondWithFallback(variant, instructed_prompt.value, res)
                       : res \in {Generate(instructed_prompt.value, b)} })
           : instructed_prompt \in {BuildInstructedPrompt(variant)} })

\* PromptEvaluator.evaluate_variant(variant, config) with a backend of
\* behaviour b: the response or the exception, and the prompts sent
EvaluateVariant(self, variant, b) ==
    Only({ IF instructed_prompt.exc # "none"
           THEN [exc |-> instructed_prompt.exc, value |-> <<>>, prompts |-> <<>>]
           ELSE Only({ Respond(variant, instructed_prompt.value, res)
                       : res \in {Generate(instructed_prompt.value, b)} })
           : instructed_prompt \in {BuildInstructedPrompt(variant)} })

\* the behaviour of the backend at its n-th generate call: it answers until
\* the call numbered script.fail_at, where it behaves as script.kind says
BehaviourAt(script, n) ==
    IF n = script.fail_at THEN [kind |-> script.kind] ELSE [kind |-> "echo"]

\* the state of a loop after a call that returned r and sent r.prompts to a
\* backend of behaviour b. The state carries the evaluator, the prompts sent
\* so far, the outcome of each generate call, the exception that ended the
\* loop and the value of the last call
After(st, r, b) ==
    [st EXCEPT !.exc = r.exc, !.value = r.value,
               !.prompts = @ \o r.prompts,
               !.outcomes = @ \o [i \in DOMAIN r.prompts |-> b.kind]]

\* variant = self.adapt_prompt(template, language, formality)
AdaptStep(st, tpl, language, formality, b) ==
    Only({ [After(st, adapted, b) EXCEPT !.self = adapted.self]
           : adapted \in {AdaptPrompt(st.self, tpl, language, formality, b)} })

\* response = self.evaluate_variant(variant, config), unless adapt_prompt raised
EvaluateStep(st, b) ==
    IF st.exc # "none" THEN st
    ELSE Only({ After(st, response, b)
                : response \in {EvaluateVariant(st.self, st.value[1], b)} })

\* one pass of the body shared by the loops of evaluate_template_comprehensive
\* and batch_evaluate: adapt_prompt, then evaluate_variant
AdaptThenEvaluate(st, tpl, language, formality, script) ==
    Only({ EvaluateStep(adapted, BehaviourAt(script, Len(adapted.prompts) + 1))
           : adapted \in {AdaptStep(st, tpl, language, formality,
                                    BehaviourAt(script, Len(st.prompts) + 1))} })

\* results[language][formality.value] = response, and the loop goes on
RECURSIVE FormalityLoop(_, _, _, _, _)
FormalityLoopOn(after, tpl, language, formality_levels, script) ==
    IF after.exc # "none" THEN after
    ELSE FormalityLoop(
             [after EXCEPT !.results[language] =
                               (Head(formality_levels) :> after.value[1]) @@ @],
             tpl, language, Tail(formality_levels), script)

\* the inner loop of evaluate_template_comprehensive, over formality_levels;
\* st also carries the results dictionary
FormalityLoop(st, tpl, language, formality_levels, script) ==
    IF formality_levels = <<>> THEN st
    ELSE Only({ FormalityLoopOn(after, tpl, language, formality_levels, script)
                : after \in {AdaptThenEvaluate(st, tpl, language,
                                               Head(formality_levels), script)} })

\* the outer loop of evaluate_template_comprehensive, over languages:
\* results[language] = {}, the inner loop, and the next language unless the
\* inner loop raised
RECURSIVE LanguageLoop(_, _, _, _, _)
LanguageLoop(st, tpl, languages, formality_levels, script) ==
    IF languages = <<>> THEN st
    ELSE Only({ IF after.exc # "none" THEN after
                ELSE LanguageLoop(after, tpl, Tail(languages), formality_levels, script)
                : after \in {FormalityLoop(
                                 [st EXCEPT !.results = (Head(languages) :> EmptyDict) @@ @],
                                 tpl, Head(languages), formality_levels, script)} })

\* what a loop hands back: the results, or the exception and no value
LoopResult(final) ==
    [exc |-> final.exc,
     value |-> IF final.exc = "none" THEN <<final.results>> ELSE <<>>,
     self |-> final.self, prompts |-> final.prompts, outcomes |-> final.outcomes]

\* PromptEvaluator.evaluate_template_comprehensive(template, languages,
\* formality_levels, config) against a backend that follows script
EvaluateTemplateComprehensive(self, tpl, languages, formality_levels, script) ==
    LoopResult(LanguageLoop([exc |-> "none", value |-> <<>>, self |-> self,
                             prompts |-> <<>>, outcomes |-> <<>>, results |-> EmptyDict],
                            tpl, languages, formality_levels, script))

\* the loop of batch_evaluate, over templates; st.results is the responses list
RECURSIVE TemplateLoop(_, _, _, _, _)
TemplateLoop(st, templates, language, formality, script) ==
    IF templates = <<>> THEN st
    ELSE Only({ IF after.exc # "none" THEN after
                ELSE TemplateLoop([after EXCEPT !.results = Append(@, after.value[1])],
                                  Tail(templates), language, formality, script)
                : after \in {AdaptThenEvaluate(st, Head(templates), language,
                                               formality, script)} })

\* PromptEvaluator.batch_evaluate(templates, language, formality, config)
\* against a backend that follows script
BatchEvaluate(self, templates, language, formality, script) ==
    LoopResult(TemplateLoop([exc |-> "none", value |-> <<>>, self |-> self,
                             prompts |-> <<>>, outcomes |-> <<>>, results |-> <<>>],
                            templates, language, formality, script))

(***************************************************************************)
(* The evaluator a caller works with, and its operations.                  *)
(***************************************************************************)
\* the language codes a caller passes: the three with an adapter class, one
\* that may be configured but has no adapter class, one never configured
EvalCodes == {"en", "de", "es", "fr", "xx"}

\* the configuration of a language with the full cultural table
FullConfig(code) ==
    ("code" :> code)
    @@ ("cultural_params" :>
            [formality_levels |->
                IF code = "es" THEN SpanishFormalityLevels ELSE GermanFormalityLevels])

\* the language_configs an evaluator is constructed with: every code but xx
\* (German with LLM adaptation enabled); German and French only; English
\* under an empty configuration beside Spanish; nothing
LanguageConfigTables ==
    { [code \in {"en", "de", "es", "fr"} |->
          IF code = "de" THEN FullConfig(code) @@ ("llm_adaptation" :> [enabled |-> TRUE])
          ELSE FullConfig(code)],
      [code \in {"de", "fr"} |-> FullConfig(code)],
      [code \in {"en", "es"} |-> IF code = "en" THEN EmptyDict ELSE FullConfig(code)],
      EmptyDict }

\* the templates a caller passes
EvalTemplates ==
    { PromptTemplate("test_prompt", <<"S","e","n","d"," ","{","N","}">>, "business", <<>>),
      PromptTemplate("persuasive_pitch", <<"P","l","e","a","s","e"," ","s","e","n","d">>,
                     "persuasive", <<>>),
      PromptTemplate("test_prompt", <<>>, "business", <<>>) }

\* the sequences over S of length at most n
RECURSIVE SeqsUpTo(_, _)
SeqsUpTo(S, n) ==
    IF n = 0 THEN { <<>> }
    ELSE LET shorter == SeqsUpTo(S, n - 1)
         IN  shorter \cup { <<x>> \o t : x \in S, t \in { u \in shorter : Len(u) = n - 1 } }

\* the longest languages list and the longest templates list passed
MaxLanguages == 2
MaxTemplates == 2

\* the languages lists passed to evaluate_template_comprehensive
LanguageLists == SeqsUpTo({"en", "de", "fr", "xx"}, MaxLanguages)

\* the formality_levels lists passed to evaluate_template_comprehensive
FormalityLists ==
    { <<>>, <<"formal">>, <<"casual", "formal">>, <<"formal", "casual">>,
      <<"neutral", "neutral">>, <<"casual", "neutral", "formal">> }

\* the templates lists passed to batch_evaluate
TemplateLists == SeqsUpTo(EvalTemplates, MaxTemplates)

\* the backends of a call: fail_at = 0 never fails; otherwise the call
\* numbered fail_at raises or returns a dictionary without content
Scripts(calls) ==
    { [fail_at |-> 0, kind |-> "raise"] }
    \cup [fail_at : 1..calls, kind : {"raise", "no_content"}]

\* the variants a caller passes to evaluate_variant: what the adapters
\* return for the template, and one of a language none of them knows
EvalVariants(tpl) ==
    LET adapted == { Adapt(CulturalAdapter(code, FullConfig(code), <<>>), tpl, formality,
                           [kind |-> "raise"]) :
                        code \in AdapterClasses, formality \in FormalityLevel }
    IN  { r.value[1] : r \in { a \in adapted : a.exc = "none" } }
        \cup { PromptVariant(tpl.id, "xx", "neutral", tpl.content, <<>>, EmptyDict) }

InitEvaluator ==
    /\ template \in EvalTemplates
    /\ adapter = NoAdapter
    /\ evaluator \in { PromptEvaluator(table) : table \in LanguageConfigTables }
    /\ cache = NoCache
    /\ tracker = NoTracker
    /\ call = NoCall
    /\ result = NoResult

\* evaluator.adapt_prompt(template, language, formality)
AdaptPromptCall ==
    /\ call = NoCall
    /\ \E language \in EvalCodes, formality \in FormalityLevel, b \in BackendBehaviours :
          \E r \in {AdaptPrompt(evaluator, template, language, formality, b)} :
              \* a backend that is not called shows no behaviour
              /\ b.kind = "raise" \/ r.prompts # <<>>
              /\ call' = [op |-> "adapt_prompt", language |-> language,
                          formality |-> formality]
              /\ result' = [exc |-> r.exc, value |-> r.value, prompts |-> r.prompts,
                            outcomes |-> [i \in DOMAIN r.prompts |-> b.kind]]
              /\ evaluator' = r.self
              /\ UNCHANGED <<template, adapter, cache, tracker>>

\* evaluator.evaluate_variant(variant)
EvaluateVariantCall ==
    /\ call = NoCall
    /\ \E variant \in EvalVariants(template), script \in Scripts(1) :
          \E r \in {EvaluateVariant(evaluator, variant, BehaviourAt(script, 1))} :
              /\ call' = [op |-> "evaluate_variant", variant |-> variant]
              /\ result' = [exc |-> r.exc, value |-> r.value, prompts |-> r.prompts,
                            outcomes |-> [i \in DOMAIN r.prompts |->
                                             BehaviourAt(script, 1).kind]]
              /\ UNCHANGED <<template, adapter, evaluator, cache, tracker>>

\* evaluator.evaluate_template_comprehensive(template, languages, formality_levels)
EvaluateTemplateComprehensiveCall ==
    /\ call = NoCall
    /\ \E languages \in LanguageLists, formality_levels \in FormalityLists :
          \E script \in Scripts(Len(languages) * Len(formality_levels)) :
             \E r \in {EvaluateTemplateComprehensive(evaluator, template, languages,
                                                      formality_levels, script)} :
                 \* a failure at a call that is never made shows no behaviour
                 /\ script.fail_at <= Len(r.prompts)
                 /\ call' = [op |-> "evaluate_template_comprehensive",
                             languages |-> languages,
                             formality_levels |-> formality_levels]
                 /\ result' = [exc |-> r.exc, value |-> r.value, prompts |-> r.prompts,
                               outcomes |-> r.outcomes]
                 /\ evaluator' = r.self
                 /\ UNCHANGED <<template, adapter, cache, tracker>>

\* evaluator.batch_evaluate(templates, language, formality)
BatchEvaluateCall ==
    /\ call = NoCall
    /\ \E templates \in TemplateLists, language \in EvalCodes, formality \in FormalityLevel :
          \E script \in Scripts(Len(templates)) :
             \E r \in {BatchEvaluate(evaluator, templates, language, formality, script)} :
                 /\ script.fail_at <= Len(r.prompts)
                 /\ call' = [op |-> "batch_evaluate", templates |-> templates,
                             language |-> language, formality |-> formality]
                 /\ result' = [exc |-> r.exc, value |-> r.value, prompts |-> r.prompts,
                               outcomes |-> r.outcomes]
                 /\ evaluator' = r.self
                 /\ UNCHANGED <<template, adapter, cache, tracker>>

\* the language codes and the configurations get_adapter is called with
FactoryCodes == EvalCodes \cup {"EN", "english"}
FactoryConfigs ==
    { EmptyDict, FullConfig("de"), FullConfig("es"),
      FullConfig("de") @@ ("llm_adaptation" :> [enabled |-> TRUE]) }

\* get_adapter(language_code, config, provider)
FactoryGetAdapterCall ==
    /\ call = NoCall
    /\ \E language_code \in FactoryCodes, config \in FactoryConfigs,
          provider \in {<<>>, <<"provider">>} :
          /\ call' = [op |-> "get_adapter", language_code |-> language_code,
                      config |-> config, provider |-> provider]
          /\ result' = FactoryGetAdapter(language_code, config, provider)
          /\ UNCHANGED <<template, adapter, evaluator, cache, tracker>>

\* the call returns to the caller, who may then make the next one
ReturnToCaller ==
    /\ call # NoCall
    /\ call' = NoCall
    /\ result' = NoResult
    /\ UNCHANGED <<template, adapter, evaluator, cache, tracker>>

NextEvaluator ==
    \/ AdaptPromptCall
    \/ EvaluateVariantCall
    \/ EvaluateTemplateComprehensiveCall
    \/ BatchEvaluateCall
    \/ FactoryGetAdapterCall
    \/ ReturnToCaller

SpecEvaluator == InitEvaluator /\ [][NextEvaluator]_vars

(***************************************************************************)
(* Properties of the evaluator (SpecEvaluator).                            *)
(***************************************************************************)
\* C9: adapt_prompt with a language code that has no entry in
\* language_configs, or that is configured but has no adapter class, raises
\* ValueError, returns no variant, sends nothing to a backend and leaves the
\* evaluator, its adapter memo included, as it was.
C9_UnconfiguredLanguageFails ==
    [][ (/\ call'.op = "adapt_prompt"
         /\ \/ call'.language \notin DOMAIN evaluator.language_configs
            \/ call'.language \notin AdapterClasses)
        => /\ result'.exc = "ValueError"
           /\ result'.value = <<>>
           /\ result'.prompts = <<>>
           /\ evaluator'.adapters = evaluator.adapters
           /\ evaluator' = evaluator ]_vars

\* C9 witness: the unconfigured code xx has just been refused by an evaluator
\* that has fr configured and already holds the German adapter in its memo
C9_Witness ==
    /\ call.op = "adapt_prompt"
    /\ call.language = "xx"
    /\ result.exc = "ValueError"
    /\ "fr" \in DOMAIN evaluator.language_configs
    /\ DOMAIN evaluator.adapters = {"de"}

\* some generate call of the last operation raised
BackendRaised == \E i \in DOMAIN result.outcomes : result.outcomes[i] = "raise"

\* C10: when a generate call raises inside evaluate_variant,
\* evaluate_template_comprehensive or batch_evaluate, the exception reaches
\* the caller, no response or partial result is returned, and the failed
\* call is the last one made: exactly one call in evaluate_variant, no call
\* after the first failure in the two loops.
C10_GenerationFailureSurfaces ==
    (/\ call.op \in {"evaluate_variant", "evaluate_template_comprehensive",
                     "batch_evaluate"}
     /\ BackendRaised)
    => /\ result.exc = "Exception"
       /\ result.value = <<>>
       /\ Len(result.prompts) = Len(result.outcomes)
       /\ \A i \in DOMAIN result.outcomes :
             result.outcomes[i] = "raise" <=> i = Len(result.outcomes)
       /\ call.op = "evaluate_variant" => Len(result.prompts) = 1

\* C10 witness: a sweep whose third generate call raised, after two answers
C10_Witness ==
    /\ call.op = "evaluate_template_comprehensive"
    /\ call.languages = <<"de", "en">>
    /\ call.formality_levels = <<"casual", "formal">>
    /\ result.outcomes = <<"echo", "echo", "raise">>
    /\ result.exc = "Exception"
    /\ result.value = <<>>
    /\ DOMAIN evaluator.adapters = {"de", "en"}

\* the elements of a list
Range(list) == { list[i] : i \in DOMAIN list }

\* the variant the evaluator's adapter for language returns for the template
\* of the call and the given formality
VariantFor(language, formality) ==
    Adapt(FactoryGetAdapter(language, evaluator.language_configs[language], <<>>).value,
          template, formality, [kind |-> "raise"]).value[1]

\* the outcome of evaluate_variant for that variant with a backend that answers
GeneratedFor(language, formality) ==
    EvaluateVariant(evaluator, VariantFor(language, formality), [kind |-> "echo"])

\* C11: when every language passed is configured and the backend never
\* fails, evaluate_template_comprehensive returns a mapping whose outer keys
\* are the languages, whose inner keys are the formality values, whose entry
\* at [language][formality] is the response generated from the variant
\* adapted for that pair, with one generate call per pair, languages in the
\* outer order and formality levels in the inner order.
C11_CrossProductSweep ==
    (/\ call.op = "evaluate_template_comprehensive"
     /\ Range(call.languages) \subseteq DOMAIN evaluator.language_configs
     /\ \A i \in DOMAIN result.outcomes : result.outcomes[i] = "echo")
    => /\ result.exc = "none"
       /\ result.value # <<>>
       /\ DOMAIN result.value[1] = Range(call.languages)
       /\ \A language \in Range(call.languages) :
             /\ DOMAIN result.value[1][language] = Range(call.formality_levels)
             /\ \A formality \in Range(call.formality_levels) :
                   result.value[1][language][formality]
                       = GeneratedFor(language, formality).value[1]
       /\ Len(result.prompts) = Len(call.languages) * Len(call.formality_levels)
       /\ \A i \in DOMAIN call.languages, j \in DOMAIN call.formality_levels :
             <<result.prompts[(i - 1) * Len(call.formality_levels) + j]>>
                 = GeneratedFor(call.languages[i], call.formality_levels[j]).prompts

(***************************************************************************)
(* The cultural appropriateness rubric, metrics/qualitative.py             *)
(* (SpecMetrics). A criterion is modelled by its score; the notes that     *)
(* accompany it are read by nothing modelled here.                         *)
(***************************************************************************)
\* str.lower()
StrLower(s) == [i \in DOMAIN s |-> Lower(s[i])]

\* s[:n]
SliceTo(s, n) == SubSeq(s, 1, IF n < Len(s) THEN n ELSE Len(s))

\* an _evaluate_greeting that scores a casual greeting in a formal text 1
EvaluateGreetingStrict(response, language, formality) ==
    [score |->
        IF /\ formality = "formal"
           /\ \/ language = "de" /\ Contains(response, <<"H","a","l","l","o">>)
              \/ language = "es" /\ Contains(response, <<"H","o","l","a">>)
        THEN 1
        ELSE 3]

\* _evaluate_greeting(response, language, formality)
EvaluateGreeting(response, language, formality) ==
    [score |->
        CASE language = "de" /\ formality = "formal" ->
                IF Contains(response, <<"S","e","h","r"," ","g","e","e","h","r","t","e">>) THEN 5
                ELSE IF Contains(response, <<"G","u","t","e","n"," ","T","a","g">>) THEN 4
                ELSE IF Contains(response, <<"H","a","l","l","o">>) THEN 2
                ELSE 3
          [] language = "de" /\ formality = "casual" ->
                IF Contains(response, <<"H","a","l","l","o">>) \/ Contains(response, <<"H","i">>) THEN 5
                ELSE IF Contains(response, <<"G","u","t","e","n"," ","T","a","g">>) THEN 3
                ELSE 3
          [] language = "es" /\ formality = "formal" ->
                IF Contains(response, <<"E","s","t","i","m","a","d","o">>) \/ Contains(response, <<"E","s","t","i","m","a","d","a">>) THEN 5
                ELSE IF Contains(response, <<"B","u","e","n","o","s"," ","d","í","a","s">>) THEN 4
                ELSE IF Contains(response, <<"H","o","l","a">>) THEN 2
                ELSE 3
          [] language = "es" /\ formality = "casual" ->
                IF Contains(response, <<"H","o","l","a">>) \/ Contains(response, <<"¿","Q","u","é"," ","t","a","l","?">>) THEN 5
                ELSE 3
          [] language = "en" /\ formality = "formal" ->
                IF Contains(SliceTo(response, 50), <<"D","e","a","r">>) THEN 5
                ELSE IF StartsWith(response, <<"P","l","e","a","s","e">>) THEN 4
                ELSE 3
          [] OTHER -> 3]

\* the score of a register: the pronoun of the target register alone gives 5,
\* the casual pronoun in a formal or neutral text gives 2
PronounScore(formality, has_formal, has_casual) ==
    IF formality \in {"formal", "neutral"}
    THEN IF has_formal /\ ~has_casual THEN 5
         ELSE IF has_casual THEN 2
         ELSE 3
    ELSE IF formality = "casual"
    THEN IF has_casual /\ ~has_formal THEN 5 ELSE 3
    ELSE 3

\* _evaluate_formality_match(response, language, formality)
EvaluateFormalityMatch(response, language, formality) ==
    [score |->
        CASE language = "de" ->
                PronounScore(formality, Contains(response, <<"S","i","e">>),
                             Contains(StrLower(response), <<"d","u">>))
          [] language = "es" ->
                PronounScore(formality, Contains(StrLower(response), <<"u","s","t","e","d">>),
                             Contains(StrLower(response), <<"t","ú">>))
          [] OTHER -> 3]

\* min(a, b)
Min(a, b) == IF a < b THEN a ELSE b

\* a _evaluate_cultural_markers that counts each marker twice and has no cap
EvaluateCulturalMarkersUncapped(response, language, domain) ==
    [score |->
        CASE language = "es" /\ domain = "business" ->
                3 + (IF Contains(response, <<"E","s","p","e","r","o"," ","q","u","e">>) THEN 2 ELSE 0)
                  + (IF Contains(response, <<"A","g","r","a","d","e","z","c","o">>) \/ Contains(response, <<"a","g","r","a","d","e","z","c","o">>)
                     THEN 2 ELSE 0)
          [] language = "de" /\ domain \in {"business", "technical"} ->
                3 + (IF \E marker \in {<<"I","c","h"," ","m","ö","c","h","t","e">>,
                                       <<"I","c","h"," ","b","i","t","t","e">>,
                                       <<"K","u","r","z","e"," ","F","r","a","g","e">>} :
                           Contains(response, marker)
                     THEN 2 ELSE 0)
          [] OTHER -> 3]

\* _evaluate_cultural_markers(response, language, domain)
EvaluateCulturalMarkers(response, language, domain) ==
    [score |->
        Min(CASE language = "es" /\ domain = "business" ->
                    3 + (IF Contains(response, <<"E","s","p","e","r","o"," ","q","u","e">>) THEN 1 ELSE 0)
                      + (IF Contains(response, <<"A","g","r","a","d","e","z","c","o">>)
                            \/ Contains(response, <<"a","g","r","a","d","e","z","c","o">>)
                         THEN 1 ELSE 0)
              [] language = "de" /\ domain \in {"business", "technical"} ->
                    3 + (IF \E marker \in {<<"I","c","h"," ","m","ö","c","h","t","e">>,
                                           <<"I","c","h"," ","b","i","t","t","e">>,
                                           <<"K","u","r","z","e"," ","F","r","a","g","e">>} :
                               Contains(response, marker)
                         THEN 1 ELSE 0)
              [] OTHER -> 3,
            5)]

\* _evaluate_closing(response, language, formality)
EvaluateClosing(response, language, formality) ==
    [score |->
        CASE language = "de" ->
                IF formality = "formal" /\ Contains(response, <<"H","o","c","h","a","c","h","t","u","n","g","s","v","o","l","l">>) THEN 5
                ELSE IF Contains(response, <<"f","r","e","u","n","d","l","i","c","h","e","n"," ","G","r","ü","ß","e","n">>) THEN 4
                ELSE IF formality = "casual" /\ Contains(response, <<"V","i","e","l","e"," ","G","r","ü","ß","e">>) THEN 5
                ELSE 3
          [] language = "es" ->
                IF formality = "formal"
                   /\ (Contains(response, <<"C","o","r","d","i","a","l","m","e","n","t","e">>)
                       \/ Contains(response, <<"A","t","e","n","t","a","m","e","n","t","e">>))
                THEN 5
                ELSE IF Contains(response, <<"S","a","l","u","d","o","s">>) /\ formality = "casual" THEN 5
                ELSE 3
          [] language = "en" ->
                IF formality = "formal" /\ Contains(response, <<"S","i","n","c","e","r","e","l","y">>) THEN 5 ELSE 3
          [] OTHER -> 3]

\* a / b: the quotient of two integers, kept exact. The floats of the code
\* are exact for the quarters the rubric averages to; a quotient of two word
\* counts is the nearest float, which rounds as the exact quotient does
\* unless that lies halfway between two thousandths, which takes a total of
\* at least 16 words
Quotient(a, b) == [num |-> a, den |-> b]

RECURSIVE Pow10(_)
Pow10(n) == IF n = 0 THEN 1 ELSE 10 * Pow10(n - 1)

\* round(q, digits), in units of 10^-digits: the nearest multiple, a tie
\* going to the even one
Round(q, digits) ==
    LET scaled == q.num * Pow10(digits)
        floor == scaled \div q.den
        twice_rest == 2 * (scaled % q.den)
    IN  IF twice_rest > q.den \/ (twice_rest = q.den /\ floor % 2 = 1)
        THEN floor + 1
        ELSE floor

\* score >= halves / 2, for a quotient score
AtLeastHalves(score, halves) == 2 * score.num >= halves * score.den

\* a _score_to_rating whose bands start at the whole numbers
ScoreToRatingWholeBands(score) ==
    IF AtLeastHalves(score, 8) THEN "Excellent"
    ELSE IF AtLeastHalves(score, 6) THEN "Good"
    ELSE IF AtLeastHalves(score, 4) THEN "Adequate"
    ELSE IF AtLeastHalves(score, 2) THEN "Poor"
    ELSE "Inappropriate"

\* _score_to_rating(score): the thresholds 4.5, 3.5, 2.5 and 1.5
ScoreToRating(score) ==
    IF AtLeastHalves(score, 9) THEN "Excellent"
    ELSE IF AtLeastHalves(score, 7) THEN "Good"
    ELSE IF AtLeastHalves(score, 5) THEN "Adequate"
    ELSE IF AtLeastHalves(score, 3) THEN "Poor"
    ELSE "Inappropriate"

\* the scores dictionary built from the four criteria; overall_score is in
\* hundredths (425 is 4.25)
RubricScores(language, formality, domain, criteria) ==
    Only({ [language |-> language,
            formality_target |-> formality,
            domain |-> domain,
            criteria |-> criteria,
            overall_score |-> Round(total_score, 2),
            overall_rating |-> ScoreToRating(total_score)]
           : total_score \in
                 {Quotient(criteria.greeting.score + criteria.formality_match.score
                               + criteria.cultural_markers.score + criteria.closing.score,
                           4)} })

\* evaluate_cultural_appropriateness(response, language, formality, domain)
EvaluateCulturalAppropriateness(response, language, formality, domain) ==
    RubricScores(language, formality, domain,
                 [greeting |-> EvaluateGreeting(response, language, formality),
                  formality_match |-> EvaluateFormalityMatch(response, language, formality),
                  cultural_markers |-> EvaluateCulturalMarkers(response, language, domain),
                  closing |-> EvaluateClosing(response, language, formality)])

(***************************************************************************)
(* Lexical diversity, metrics/quantitative.py (SpecMetrics).               *)
(***************************************************************************)
\* the characters of the model's alphabet that \w does not match; every
\* other character of the alphabet is a letter, a digit or "_"
NonWordChars ==
    {" ", "\n", "\t", ".", ",", ":", ";", "!", "?", "¿", "¡", "{", "}", "-", "'", "(", ")"}

IsWordChar(c) == c \notin NonWordChars

\* re.findall(r'\b\w+\b', s), reading s from the left; word is the run of
\* word characters read so far
RECURSIVE FindWords(_, _)
FindWords(s, word) ==
    IF s = <<>> THEN (IF word = <<>> THEN <<>> ELSE <<word>>)
    ELSE IF IsWordChar(Head(s)) THEN FindWords(Tail(s), Append(word, Head(s)))
    ELSE (IF word = <<>> THEN <<>> ELSE <<word>>) \o FindWords(Tail(s), <<>>)

\* the metrics dictionary of a word list (the most_common_words entry, which
\* nothing modelled here reads, is left out); type_token_ratio is in
\* thousandths (500 is 0.5)
DiversityMetrics(words) ==
    IF words = <<>>
    THEN [type_token_ratio |-> 0, unique_words |-> 0, total_words |-> 0]
    ELSE [type_token_ratio |->
              Round(Quotient(Cardinality({ words[i] : i \in DOMAIN words }), Len(words)), 3),
          unique_words |-> Cardinality({ words[i] : i \in DOMAIN words }),
          total_words |-> Len(words)]

\* a calculate_lexical_diversity that does not fold the case
CalculateLexicalDiversityCaseSensitive(response) ==
    DiversityMetrics(FindWords(response, <<>>))

\* calculate_lexical_diversity(response)
CalculateLexicalDiversity(response) ==
    DiversityMetrics(FindWords(StrLower(response), <<>>))

(***************************************************************************)
(* The texts a caller has measured, and the metric operations.             *)
(***************************************************************************)
\* the phrases the responses in a language are put together from: the
\* markers the rubric looks for in that language; for English also a filler
\* of 50 characters, the length of the prefix the greeting is looked for in
RubricChunks(language) ==
    CASE language = "de" ->
            { <<"S","e","h","r"," ","g","e","e","h","r","t","e">>, <<"G","u","t","e","n"," ","T","a","g">>,
              <<"H","a","l","l","o">>, <<"H","i">>, <<"S","i","e">>, <<"d","u">>,
              <<"I","c","h"," ","b","i","t","t","e">>, <<"H","o","c","h","a","c","h","t","u","n","g","s","v","o","l","l">>,
              <<"f","r","e","u","n","d","l","i","c","h","e","n"," ","G","r","ü","ß","e","n">>,
              <<"V","i","e","l","e"," ","G","r","ü","ß","e">> }
      [] language = "es" ->
            { <<"E","s","t","i","m","a","d","o">>, <<"B","u","e","n","o","s"," ","d","í","a","s">>,
              <<"H","o","l","a">>, <<"¿","Q","u","é"," ","t","a","l","?">>,
              <<"u","s","t","e","d">>, <<"t","ú">>, <<"E","s","p","e","r","o"," ","q","u","e">>,
              <<"A","g","r","a","d","e","z","c","o">>, <<"A","t","e","n","t","a","m","e","n","t","e">>,
              <<"S","a","l","u","d","o","s">> }
      [] OTHER ->
            { <<"D","e","a","r">>, <<"P","l","e","a","s","e">>, <<"S","i","n","c","e","r","e","l","y">>,
              [i \in 1..50 |-> "x"] }

\* the concatenations of at most n elements of chunks
RECURSIVE Concatenations(_, _)
Concatenations(chunks, n) ==
    IF n = 0 THEN { <<>> }
    ELSE Only({ shorter \cup { c \o t : c \in chunks, t \in shorter }
                : shorter \in {Concatenations(chunks, n - 1)} })

\* the most phrases in a response, and the most pieces in a measured text
MaxMarkers == 2
MaxPieces == 4

\* the language codes the rubric is asked about
RubricLanguages == {"en", "de", "es", "fr"}

\* the responses in a language
RubricResponses(language) == Concatenations(RubricChunks(language), MaxMarkers)

\* the domains the rubric is asked about
RubricDomains == {"business", "technical", "creative"}

\* the sentence of the lexical diversity example
CatSentence ==
    <<"t","h","e"," ","c","a","t"," ","s","a","t"," ","o","n"," ","t","h","e"," ","m","a","t"," ","t","h","e"," ","c","a","t"," ","r","a","n">>

\* the texts whose lexical diversity is measured: the example sentence and
\* the concatenations of at most MaxPieces of a few words and separators
LexicalTexts ==
    {CatSentence}
    \cup Concatenations({ <<"t","h","e">>, <<"T","h","e">>, <<"c","a","t">>,
                          <<" ">>, <<",", " ">>, <<"1">> }, MaxPieces)

InitMetrics ==
    /\ template = PromptTemplate("test_prompt", <<>>, "business", <<>>)
    /\ adapter = NoAdapter
    /\ evaluator = NoEvaluator
    /\ cache = NoCache
    /\ tracker = NoTracker
    /\ call = NoCall
    /\ result = NoResult

\* evaluate_cultural_appropriateness(response, language, formality, domain)
EvaluateCulturalAppropriatenessCall ==
    /\ call = NoCall
    /\ \E language \in RubricLanguages, formality \in FormalityLevel,
          domain \in RubricDomains :
          \E response \in RubricResponses(language) :
             /\ call' = [op |-> "evaluate_cultural_appropriateness",
                         response |-> response, language |-> language,
                         formality |-> formality, domain |-> domain]
             /\ result' = Return(EvaluateCulturalAppropriateness(response, language,
                                                                 formality, domain))
             /\ UNCHANGED <<template, adapter, evaluator, cache, tracker>>

\* calculate_lexical_diversity(response)
CalculateLexicalDiversityCall ==
    /\ call = NoCall
    /\ \E response \in LexicalTexts :
          /\ call' = [op |-> "calculate_lexical_diversity", response |-> response]
          /\ result' = Return(CalculateLexicalDiversity(response))
          /\ UNCHANGED <<template, adapter, evaluator, cache, tracker>>

NextMetrics ==
    \/ EvaluateCulturalAppropriatenessCall
    \/ CalculateLexicalDiversityCall
    \/ ReturnToCaller

SpecMetrics == InitMetrics /\ [][NextMetrics]_vars

(***************************************************************************)
(* Properties of the metrics (SpecMetrics).                                *)
(***************************************************************************)
\* the names of the four criteria
CriterionNames == {"greeting", "formality_match", "cultural_markers", "closing"}

\* C12: evaluate_cultural_appropriateness returns an overall_score within
\* [1.0, 5.0] (100..500 hundredths) and four criterion scores, each an
\* integer within 1..5.
C12_RubricScoresBounded ==
    call.op = "evaluate_cultural_appropriateness" =>
        /\ result.exc = "none"
        /\ result.value.overall_score \in 100..500
        /\ DOMAIN result.value.criteria = CriterionNames
        /\ \A name \in CriterionNames : result.value.criteria[name].score \in 1..5

\* C12 witness: a Spanish business response with both cultural markers, whose
\* cultural_markers score stands at the cap
C12_Witness ==
    /\ call.op = "evaluate_cultural_appropriateness"
    /\ call.language = "es"
    /\ call.domain = "business"
    /\ call.response = <<"E","s","p","e","r","o"," ","q","u","e">> \o <<"A","g","r","a","d","e","z","c","o">>
    /\ result.value.criteria.cultural_markers.score = 5
    /\ result.value.overall_score = 350

\* the band of an overall_score given in hundredths
BandOfHundredths(overall_score) ==
    IF overall_score >= 450 THEN "Excellent"
    ELSE IF overall_score >= 350 THEN "Good"
    ELSE IF overall_score >= 250 THEN "Adequate"
    ELSE IF overall_score >= 150 THEN "Poor"
    ELSE "Inappropriate"

\* C13: the overall_rating returned is the band of the returned (rounded)
\* overall_score: Excellent from 4.5, Good from 3.5, Adequate from 2.5, Poor
\* from 1.5, Inappropriate below.
C13_RatingIsBandOfScore ==
    call.op = "evaluate_cultural_appropriateness" =>
        result.value.overall_rating = BandOfHundredths(result.value.overall_score)

\* C13 witness: a formal German response with a casual greeting and pronoun,
\* whose score of 2.5 stands on the threshold of Adequate
C13_Witness ==
    /\ call.op = "evaluate_cultural_appropriateness"
    /\ call.language = "de"
    /\ call.formality = "formal"
    /\ call.response = <<"H","a","l","l","o">> \o <<"d","u">>
    /\ result.value.overall_score = 250
    /\ result.value.overall_rating = "Adequate"

\* the word tokens of a text, as the places <<i, j>> of its maximal runs of
\* word characters
TokenSpans(text) ==
    { span \in (DOMAIN text) \X (DOMAIN text) :
        /\ span[1] <= span[2]
        /\ \A k \in span[1]..span[2] : IsWordChar(text[k])
        /\ span[1] = 1 \/ ~IsWordChar(text[span[1] - 1])
        /\ span[2] = Len(text) \/ ~IsWordChar(text[span[2] + 1]) }

\* the general part of C14: unique_words counts the distinct case-folded word
\* tokens, total_words the word tokens, type_token_ratio is the thousandth
\* nearest to their quotient, and all three are 0 for a text without tokens
LexicalDiversityInGeneral ==
    LET text == call.response
        folded == { StrLower(SubSeq(text, span[1], span[2])) : span \in TokenSpans(text) }
        total == Cardinality(TokenSpans(text))
        metrics == result.value
    IN  /\ result.exc = "none"
        /\ metrics.unique_words = Cardinality(folded)
        /\ metrics.total_words = total
        /\ IF total = 0 THEN metrics.type_token_ratio = 0
           ELSE /\ 2 * (1000 * metrics.unique_words - metrics.type_token_ratio * total)
                       <= total
                /\ 2 * (metrics.type_token_ratio * total - 1000 * metrics.unique_words)
                       <= total

\* C14 as stated: the example sentence yields unique_words=7, total_words=9
\* and type_token_ratio=0.778, and the general part holds.
C14_LexicalDiversitySevenOfNine ==
    call.op = "calculate_lexical_diversity" =>
        /\ call.response = CatSentence =>
              /\ result.value.unique_words = 7
              /\ result.value.total_words = 9
              /\ result.value.type_token_ratio = 778
        /\ LexicalDiversityInGeneral

\* C14 amended: the example sentence yields unique_words=6, total_words=9 and
\* type_token_ratio=0.667, and the general part holds.
C14_LexicalDiversity ==
    call.op = "calculate_lexical_diversity" =>
        /\ call.response = CatSentence =>
              /\ result.value.unique_words = 6
              /\ result.value.total_words = 9
              /\ result.value.type_token_ratio = 667
        /\ LexicalDiversityInGeneral

\* C14 witness: the example sentence has been measured
C14_Witness ==
    /\ call.op = "calculate_lexical_diversity"
    /\ call.response = CatSentence
    /\ result.value.total_words = 9

(***************************************************************************)
(* Properties of the adapter factory (SpecEvaluator).                      *)
(***************************************************************************)
\* C15: get_adapter returns an adapter of the class of the code, built from
\* the configuration and the provider passed, for en, de and es; for every
\* other code it raises ValueError and returns no adapter.
C15_FactoryByLanguageCode ==
    call.op = "get_adapter" =>
        IF call.language_code \in {"en", "de", "es"}
        THEN /\ result.exc = "none"
             /\ result.value.cls = call.language_code
             /\ result.value.config = call.config
             /\ result.value.provider = call.provider
        ELSE /\ result.exc = "ValueError"
             /\ result.value = <<>>

\* C15 witness: the factory has refused the code xx, passed with a full
\* configuration and a provider
C15_Witness ==
    /\ call.op = "get_adapter"
    /\ call.language_code = "xx"
    /\ call.config = FullConfig("de")
    /\ call.provider # <<>>
    /\ result.exc = "ValueError"

(***************************************************************************)
(* Properties of the language strategies (SpecAdapter).                    *)
(***************************************************************************)
\* C16: the English adapter at neutral formality, with no refinement,
\* returns the template content itself as adapted_content (and as phase-1
\* text), whatever greeting, closing or pronoun its configuration carries.
C16_EnglishNeutralIsIdentity ==
    (/\ adapter.cls = "en"
     /\ call.op \in {"adapt", "programmatic"}
     /\ call.formality = "neutral"
     /\ ~ShouldUseLlmAdaptation(adapter))
    => /\ result.exc = "none"
       /\ call.op = "adapt" => /\ result.value # <<>>
                               /\ result.value[1].adapted_content = template.content
       /\ call.op = "programmatic" => result.value = template.content

\* C16 witness: an English adapter whose configuration carries a neutral
\* greeting has adapted a non-empty content at neutral formality
C16_Witness ==
    /\ adapter.cls = "en"
    /\ call.op = "adapt"
    /\ call.formality = "neutral"
    /\ ~ShouldUseLlmAdaptation(adapter)
    /\ GetCulturalParam(adapter, "neutral", "greeting") # <<>>
    /\ template.content # <<>>
    /\ result.value[1].adapted_content = template.content

\* the framing clause the German adapter is documented to use at a formality
GermanFramingClause(formality) ==
    CASE formality = "formal" -> <<"I","c","h"," ","m","ö","c","h","t","e"," ","S","i","e"," ","u","m"," ","F","o","l","g","e","n","d","e","s"," ","b","i","t","t","e","n",":">>
      [] formality = "neutral" -> <<"I","c","h"," ","b","i","t","t","e"," ","u","m"," ","F","o","l","g","e","n","d","e","s",":">>
      [] formality = "casual" -> <<"K","u","r","z","e"," ","F","r","a","g","e",":">>

\* the casual markers of the German configuration
GermanCasualMarkers == { <<"d","u">>, <<"H","a","l","l","o">>, <<"K","u","r","z","e"," ","F","r","a","g","e",":">> }

\* the text the last call produced: adapted_content of the variant adapt()
\* returned, or the phase-1 text of a direct call
OutputText == IF call.op = "adapt" THEN result.value[1].adapted_content ELSE result.value

\* the adapter was built from a configuration carrying the whole table levels
\* and the last call ran the programmatic strategy only
StrategyRanWith(cls, levels) ==
    /\ adapter.cls = cls
    /\ Get(adapter.config, "cultural_params", EmptyDict) = [formality_levels |-> levels]
    /\ call.op \in {"adapt", "programmatic"}
    /\ result.backend = "not_called"

\* C17: under the full German configuration the German adapter's output for
\* each formality contains that formality's configured greeting and closing
\* and its framing clause, and the formal output for a template without the
\* casual markers ('du', 'Hallo', 'Kurze Frage:') contains none of them.
C17_GermanMarkers ==
    StrategyRanWith("de", GermanFormalityLevels)
    => /\ result.exc = "none"
       /\ Contains(OutputText, GermanFormalityLevels[call.formality].greeting)
       /\ Contains(OutputText, GermanFormalityLevels[call.formality].closing)
       /\ Contains(OutputText, GermanFramingClause(call.formality))
       /\ (/\ call.formality = "formal"
           /\ \A m \in GermanCasualMarkers : ~Contains(template.content, m))
          => \A m \in GermanCasualMarkers : ~Contains(OutputText, m)

\* C17 witness: adapt() of the fully configured German adapter returned a
\* formal variant of a non-empty template that carries the formal closing
C17_Witness ==
    /\ StrategyRanWith("de", GermanFormalityLevels)
    /\ call.op = "adapt"
    /\ call.formality = "formal"
    /\ template.content # <<>>
    /\ result.exc = "none"
    /\ Contains(OutputText, <<"H","o","c","h","a","c","h","t","u","n","g","s","v","o","l","l">>)

\* the phrases the Spanish adapter is documented to use
WellBeingInquiry == <<"E","s","p","e","r","o"," ","q","u","e"," ","s","e"," ","e","n","c","u","e","n","t","r","e"," ","b","i","e","n",".">>
GratitudePhrase == <<"A","g","r","a","d","e","z","c","o"," ","d","e"," ","a","n","t","e","m","a","n","o"," ","s","u"," ","a","t","e","n","c","i","ó","n"," ","y"," ","t","i","e","m","p","o",".">>
CasualOpener == <<"¿","Q","u","é"," ","t","a","l","?"," ","T","e"," ","e","s","c","r","i","b","o"," ","p","o","r","q","u","e",":">>
\* the words every well-being inquiry of the adapter starts with
WellBeingOpening == <<"E","s","p","e","r","o"," ","q","u","e">>

\* C18: for one template, the Spanish adapter's formal output contains the
\* well-being inquiry, the gratitude phrase and the configured formal
\* closing; its casual output contains no well-being inquiry and no
\* gratitude phrase (the template bringing none) and has the casual opener.
C18_SpanishRegisters ==
    (/\ adapter.cls = "es"
     /\ call.op \in {"adapt", "programmatic"}
     /\ result.backend = "not_called")
    => /\ result.exc = "none"
       /\ call.formality = "formal"
          => /\ Contains(OutputText, WellBeingInquiry)
             /\ Contains(OutputText, GratitudePhrase)
             /\ Contains(OutputText, GetCulturalParam(adapter, "formal", "closing"))
       /\ call.formality = "casual"
          => /\ Contains(OutputText, CasualOpener)
             /\ ~Contains(template.content, WellBeingOpening)
                => ~Contains(OutputText, WellBeingOpening)
             /\ ~Contains(template.content, GratitudePhrase)
                => ~Contains(OutputText, GratitudePhrase)

\* C18 witness: the fully configured Spanish adapter returned a casual
\* variant of a non-empty template, opening with the casual opener
C18_Witness ==
    /\ StrategyRanWith("es", SpanishFormalityLevels)
    /\ call.op = "adapt"
    /\ call.formality = "casual"
    /\ template.content # <<>>
    /\ result.exc = "none"
    /\ Contains(OutputText, CasualOpener)
    /\ Contains(OutputText, SpanishFormalityLevels.casual.closing)

\* the configuration has no value for a slot of a formality: 'cultural_params',
\* 'formality_levels', the formality's entry or the slot itself is absent
SlotMissing(config, formality, slot) ==
    \/ "cultural_params" \notin DOMAIN config
    \/ "formality_levels" \notin DOMAIN config["cultural_params"]
    \/ formality \notin DOMAIN config["cultural_params"]["formality_levels"]
    \/ slot \notin DOMAIN config["cultural_params"]["formality_levels"][formality]

\* s.endswith(p)
EndsWith(s, p) == Len(p) <= Len(s) /\ SubSeq(s, Len(s) - Len(p) + 1, Len(s)) = p

\* C19: a missing cultural parameter reads as "" from _get_greeting,
\* _get_closing and _get_pronoun, and adapt() of the German adapter still
\* returns a variant: its text has the framing clause and the template
\* content, starts at the framing clause when the greeting is missing and
\* ends at the content when the closing is missing.
C19_MissingParamsDegrade ==
    (/\ call.op \in {"adapt", "programmatic"}
     /\ result.backend = "not_called")
    => /\ \A slot \in {"greeting", "closing", "pronoun"} :
            SlotMissing(adapter.config, call.formality, slot)
            => GetCulturalParam(adapter, call.formality, slot) = <<>>
       /\ adapter.cls = "de"
          => /\ result.exc = "none"
             /\ call.op = "adapt" => result.value # <<>>
             /\ Contains(OutputText, GermanFramingClause(call.formality))
             /\ Contains(OutputText, template.content)
             /\ SlotMissing(adapter.config, call.formality, "greeting")
                => StartsWith(OutputText, <<"\n">> \o GermanFramingClause(call.formality))
             /\ SlotMissing(adapter.config, call.formality, "closing")
                => EndsWith(OutputText, <<"\n">> \o template.content)

\* C19 witness: a German adapter whose configuration has a formal greeting
\* only has adapted a non-empty template at neutral formality, and the
\* text is the framing clause followed by the content
C19_Witness ==
    /\ adapter.cls = "de"
    /\ "cultural_params" \in DOMAIN adapter.config
    /\ SlotMissing(adapter.config, "neutral", "greeting")
    /\ ~SlotMissing(adapter.config, "formal", "greeting")
    /\ call.op = "adapt"
    /\ call.formality = "neutral"
    /\ template.content # <<>>
    /\ result.exc = "none"
    /\ OutputText = <<"\n">> \o GermanFramingClause("neutral") \o <<"\n">> \o template.content

(***************************************************************************)
(* Serialization of PromptVariant and LLMResponse (core/prompt.py).        *)
(* Here a formality field holds the enum member (by name), and a dict      *)
(* holds the member's value string.                                        *)
(***************************************************************************)
\* the members of FormalityLevel, by name
FormalityLevelMembers == {"CASUAL", "NEUTRAL", "FORMAL"}

\* member.value
FormalityLevelValue == [CASUAL |-> "casual", NEUTRAL |-> "neutral", FORMAL |-> "formal"]

\* FormalityLevel(value): the member with that value, ValueError if none
FormalityLevelByValue(value) ==
    IF \E m \in FormalityLevelMembers : FormalityLevelValue[m] = value
    THEN Return(CHOOSE m \in FormalityLevelMembers : FormalityLevelValue[m] = value)
    ELSE Raise("ValueError")

\* the dict d without the keys ks
Without(d, ks) == [k \in DOMAIN d \ ks |-> d[k]]

\* PromptVariant.to_dict
PromptVariantToDict(self) ==
    [template_id |-> self.template_id,
     language |-> self.language,
     formality |-> FormalityLevelValue[self.formality],
     adapted_content |-> self.adapted_content,
     adaptation_notes |-> self.adaptation_notes,
     timestamp |-> self.timestamp,
     metadata |-> self.metadata]

\* PromptVariant.from_dict that stamps the variant with the time of loading
PromptVariantFromDictStampingNow(data, now) ==
    IF {"template_id", "language", "formality", "adapted_content"} \ DOMAIN data # {}
    THEN Raise("KeyError")
    ELSE IF FormalityLevelByValue(data.formality).exc # "none"
    THEN Raise("ValueError")
    ELSE Return([template_id |-> data.template_id,
                 language |-> data.language,
                 formality |-> FormalityLevelByValue(data.formality).value,
                 adapted_content |-> data.adapted_content,
                 adaptation_notes |-> Get(data, "adaptation_notes", <<>>),
                 timestamp |-> now,
                 metadata |-> Get(data, "metadata", EmptyDict)])

\* PromptVariant.from_dict, datetime.utcnow().isoformat() giving now
PromptVariantFromDict(data, now) ==
    IF {"template_id", "language", "formality", "adapted_content"} \ DOMAIN data # {}
    THEN Raise("KeyError")
    ELSE IF FormalityLevelByValue(data.formality).exc # "none"
    THEN Raise("ValueError")
    ELSE Return([template_id |-> data.template_id,
                 language |-> data.language,
                 formality |-> FormalityLevelByValue(data.formality).value,
                 adapted_content |-> data.adapted_content,
                 adaptation_notes |-> Get(data, "adaptation_notes", <<>>),
                 timestamp |-> Get(data, "timestamp", now),
                 metadata |-> Get(data, "metadata", EmptyDict)])

\* LLMResponse.to_dict
LLMResponseToDict(self) ==
    [variant_id |-> self.variant_id,
     content |-> self.content,
     model |-> self.model,
     tokens_input |-> self.tokens_input,
     tokens_output |-> self.tokens_output,
     timestamp |-> self.timestamp,
     metadata |-> self.metadata]

\* LLMResponse.from_dict, datetime.utcnow().isoformat() giving now
LLMResponseFromDict(data, now) ==
    IF {"variant_id", "content", "model"} \ DOMAIN data # {}
    THEN Raise("KeyError")
    ELSE Return([variant_id |-> data.variant_id,
                 content |-> data.content,
                 model |-> data.model,
                 tokens_input |-> Get(data, "tokens_input", 0),
                 tokens_output |-> Get(data, "tokens_output", 0),
                 timestamp |-> Get(data, "timestamp", now),
                 metadata |-> Get(data, "metadata", EmptyDict)])

(***************************************************************************)
(* The serialization specification: objects are serialized and stored      *)
(* records are loaded.                                                     *)
(***************************************************************************)
\* ISO timestamps objects were created at, and the times of loading
Timestamps == {"2025-01-01T09:00:00", "2025-01-02T09:00:00"}
Clock == {"2025-01-02T09:00:00", "2025-01-03T09:00:00"}

\* metadata dicts
Metadatas == {EmptyDict, [strategy |-> "programmatic_only"]}

\* the PromptVariant objects
PromptVariants ==
    [template_id : {"test_prompt"},
     language : {"de", "es"},
     formality : FormalityLevelMembers,
     adapted_content : {<<>>, <<"H","a","l","l","o">>},
     adaptation_notes : {<<>>, <<"n">>},
     timestamp : Timestamps,
     metadata : Metadatas]

\* the LLMResponse objects
LLMResponses ==
    [variant_id : {"test_prompt_de_formal"},
     content : {<<>>, <<"G","u","t">>},
     model : {"mock-model"},
     tokens_input : {0, 12},
     tokens_output : {0, 34},
     timestamp : Timestamps,
     metadata : Metadatas]

\* the keys from_dict reads with a default
VariantOptionalKeys == {"adaptation_notes", "timestamp", "metadata"}
ResponseOptionalKeys == {"tokens_input", "tokens_output", "timestamp", "metadata"}

\* stored variant records: what to_dict wrote, the same without the
\* optional keys, without the template id, and with a formality that is the
\* name of a member instead of its value
StoredVariants ==
    LET written == { PromptVariantToDict(v) : v \in PromptVariants }
    IN  written
        \cup { Without(d, VariantOptionalKeys) : d \in written }
        \cup { Without(d, {"template_id"}) : d \in written }
        \cup { [d EXCEPT !.formality = "FORMAL"] : d \in written }

\* stored response records: what to_dict wrote, the same without the
\* optional keys, and without the model
StoredResponses ==
    LET written == { LLMResponseToDict(r) : r \in LLMResponses }
    IN  written
        \cup { Without(d, ResponseOptionalKeys) : d \in written }
        \cup { Without(d, {"model"}) : d \in written }

InitSerialization ==
    /\ template = PromptTemplate("test_prompt", <<>>, "business", <<>>)
    /\ adapter = NoAdapter
    /\ evaluator = NoEvaluator
    /\ cache = NoCache
    /\ tracker = NoTracker
    /\ call = NoCall
    /\ result = NoResult

\* v.to_dict() of a PromptVariant v
PromptVariantToDictCall ==
    /\ call = NoCall
    /\ \E v \in PromptVariants :
          /\ call' = [op |-> "PromptVariant.to_dict", self |-> v]
          /\ result' = Return(PromptVariantToDict(v))
    /\ UNCHANGED <<template, adapter, evaluator, cache, tracker>>

\* PromptVariant.from_dict(data)
PromptVariantFromDictCall ==
    /\ call = NoCall
    /\ \E data \in StoredVariants, now \in Clock :
          /\ call' = [op |-> "PromptVariant.from_dict", data |-> data]
          /\ result' = PromptVariantFromDict(data, now)
    /\ UNCHANGED <<template, adapter, evaluator, cache, tracker>>

\* r.to_dict() of an LLMResponse r
LLMResponseToDictCall ==
    /\ call = NoCall
    /\ \E r \in LLMResponses :
          /\ call' = [op |-> "LLMResponse.to_dict", self |-> r]
          /\ result' = Return(LLMResponseToDict(r))
    /\ UNCHANGED <<template, adapter, evaluator, cache, tracker>>

\* LLMResponse.from_dict(data)
LLMResponseFromDictCall ==
    /\ call = NoCall
    /\ \E data \in StoredResponses, now \in Clock :
          /\ call' = [op |-> "LLMResponse.from_dict", data |-> data]
          /\ result' = LLMResponseFromDict(data, now)
    /\ UNCHANGED <<template, adapter, evaluator, cache, tracker>>

NextSerialization ==
    \/ PromptVariantToDictCall
    \/ PromptVariantFromDictCall
    \/ LLMResponseToDictCall
    \/ LLMResponseFromDictCall
    \/ ReturnToCaller

SpecSerialization == InitSerialization /\ [][NextSerialization]_vars

(***************************************************************************)
(* Properties of the serialization (SpecSerialization).                    *)
(***************************************************************************)
\* C20: loading what to_dict wrote gives the object back, field for field:
\* PromptVariant.from_dict(v.to_dict()) = v for every PromptVariant v and
\* LLMResponse.from_dict(r.to_dict()) = r for every LLMResponse r, whatever
\* the time of loading.
C20_RoundTrip ==
    /\ call.op = "PromptVariant.to_dict"
       => \A now \in Clock : PromptVariantFromDict(result.value, now) = Return(call.self)
    /\ call.op = "PromptVariant.from_dict"
       => \A v \in PromptVariants :
             call.data = PromptVariantToDict(v) => result = Return(v)
    /\ call.op = "LLMResponse.to_dict"
       => \A now \in Clock : LLMResponseFromDict(result.value, now) = Return(call.self)
    /\ call.op = "LLMResponse.from_dict"
       => \A r \in LLMResponses :
             call.data = LLMResponseToDict(r) => result = Return(r)

\* C20 witness: a record written by to_dict of a formal variant with
\* metadata and notes was loaded, and the variant came back with its own
\* timestamp and the FORMAL member
C20_Witness ==
    /\ call.op = "PromptVariant.from_dict"
    /\ \E v \in PromptVariants : call.data = PromptVariantToDict(v)
    /\ call.data.formality = "formal"
    /\ call.data.metadata # EmptyDict
    /\ result.exc = "none"
    /\ result.value.formality = "FORMAL"
    /\ result.value.timestamp = call.data.timestamp
    /\ result.value.timestamp \notin Clock

(***************************************************************************)
(* Properties of the adaptation notes (SpecAdapter).                       *)
(***************************************************************************)
\* C21: the adaptation notes of a variant name the pronoun register of the
\* formality: the German adapter at casual formality, configured with the
\* pronoun 'du', returns a variant whose adaptation_notes contain 'du'.
C21_NotesNamePronoun ==
    (/\ adapter.cls = "de"
     /\ GetCulturalParam(adapter, "casual", "pronoun") = <<"d","u">>
     /\ call.op = "adapt"
     /\ call.formality = "casual"
     /\ result.exc = "none")
    => Contains(result.value[1].adaptation_notes, <<"d","u">>)

(***************************************************************************)
(* Properties of the two phases of adapt() (SpecAdapter).                  *)
(***************************************************************************)
\* the language configuration of the adapter enables llm_adaptation
LlmEnabled == Get(Get(adapter.config, "llm_adaptation", EmptyDict), "enabled", FALSE)

\* the strategy the language configuration names, if any
ConfiguredStrategy == Get(Get(adapter.config, "llm_adaptation", EmptyDict), "strategy", "none")

\* the calls of provider.generate and the use of phase 1 are as documented
GenerateCallsAsDocumented ==
    /\ (LlmEnabled /\ adapter.provider # <<>>) => Len(result.prompts) = 1
    /\ ~(LlmEnabled /\ adapter.provider # <<>>) => Len(result.prompts) = 0
    /\ result.backend \in {"raise", "no_content"} => Len(result.prompts) = 1
    /\ result.prompts # <<>>
       => /\ Phase1OfCall.exc = "none"
          /\ result.prompts[1] = BuildLlmAdaptationPrompt(adapter, Phase1OfCall.value,
                                                          template, call.formality)

\* C23: in one adapt() call phase 1 runs first and the backend receives its
\* output; provider.generate is called exactly once when the configuration
\* enables llm_adaptation and a provider is attached, never otherwise, and
\* not a second time after a backend failure.
C23_OneGenerateAfterPhase1 ==
    call.op = "adapt" => GenerateCallsAsDocumented

\* C24: an adapter whose configured strategy is programmatic_only never
\* calls the backend in adapt(), whatever the enabled flag and whether or
\* not a provider is attached, and adapted_content is the phase-1 output.
C24_ProgrammaticOnlyStaysLocal ==
    (call.op = "adapt" /\ ConfiguredStrategy = "programmatic_only")
    => /\ result.prompts = <<>>
       /\ result.exc = "none" => result.value[1].adapted_content = Phase1OfCall.value

(***************************************************************************)
(* Properties of the English politeness marker (SpecAdapter).              *)
(***************************************************************************)
\* the politeness marker of the English adapter
PleaseMarker == <<"P","l","e","a","s","e"," ">>

\* the openings a formal English content may already have
FormalOpenings ==
    { PleaseMarker, <<"D","e","a","r">>, <<"H","e","l","l","o">>,
      <<"G","r","e","e","t","i","n","g","s">> }

\* C26: the English adapter at formal formality adds 'Please ' only if the
\* content does not already start with it (or with 'Dear', 'Hello',
\* 'Greetings'), so the formal transform of its own output is that output;
\* at casual formality a leading 'Please ' is removed exactly once.
C26_PleaseAddedOnce ==
    (adapter.cls = "en" /\ call.op = "programmatic")
    => /\ (/\ call.formality = "formal"
           /\ \E p \in FormalOpenings : StartsWith(template.content, p))
          => result = [NoResult EXCEPT !.value = template.content]
       /\ (call.formality = "formal" /\ result.exc = "none")
          => ApplyProgrammaticAdaptations(adapter,
                                          [template EXCEPT !.content = result.value],
                                          "formal").value = result.value
       /\ (call.formality = "casual" /\ StartsWith(template.content, PleaseMarker))
          => result.value = SliceFrom(template.content, Len(PleaseMarker))

(***************************************************************************)
(* Properties of the evaluator's adapters (SpecEvaluator).                 *)
(***************************************************************************)
\* the number of (template, language, formality) triples the last call was
\* asked to evaluate
TriplesAsked ==
    CASE call.op = "evaluate_template_comprehensive"
            -> Len(call.languages) * Len(call.formality_levels)
      [] call.op = "batch_evaluate" -> Len(call.templates)
      [] OTHER -> 0

\* C28: adaptation through the evaluator never reaches the backend: the
\* adapters of the memo have no provider, so adapt_prompt sends nothing to
\* the backend and returns the phase-1 text even where the configuration
\* enables llm_adaptation, and the sweeps call provider.generate once per
\* triple evaluated.
C28_AdaptPromptStaysLocal ==
    /\ \A code \in DOMAIN evaluator.adapters : evaluator.adapters[code].provider = <<>>
    /\ call.op = "adapt_prompt"
       => /\ result.prompts = <<>>
          /\ result.exc = "none"
             => result.value[1].adapted_content =
                   ApplyProgrammaticAdaptations(evaluator.adapters[call.language],
                                                template, call.formality).value
    /\ call.op \in {"evaluate_template_comprehensive", "batch_evaluate"}
       => /\ Len(result.prompts) <= TriplesAsked
          /\ result.exc = "none" => Len(result.prompts) = TriplesAsked

\* C28 witness: a sweep over German, whose configuration enables
\* llm_adaptation, and one more language returned, with one generate call
\* for each of its two triples or more
C28_Witness ==
    /\ call.op = "evaluate_template_comprehensive"
    /\ "de" \in DOMAIN evaluator.adapters
    /\ Get(Get(evaluator.adapters["de"].config, "llm_adaptation", EmptyDict), "enabled", FALSE)
    /\ result.exc = "none"
    /\ Len(call.languages) = 2
    /\ Len(result.prompts) = TriplesAsked

\* the memo of the evaluator holds adapters for configured codes only, each
\* built from the configuration of its code
MemoWithinConfigs ==
    \A code \in DOMAIN evaluator.adapters :
        /\ code \in DOMAIN evaluator.language_configs
        /\ evaluator.adapters[code].config = evaluator.language_configs[code]

\* a step keeps every memoized adapter as it is, and a call for a code that
\* is already in the memo adds nothing to it
MemoOnlyGrows ==
    /\ \A code \in DOMAIN evaluator.adapters :
          /\ code \in DOMAIN evaluator'.adapters
          /\ evaluator'.adapters[code] = evaluator.adapters[code]
    /\ (call'.op = "adapt_prompt" /\ call'.language \in DOMAIN evaluator.adapters)
       => evaluator' = evaluator

\* C25: the adapter memo is an append-only read-through cache keyed by
\* language code: over any sequence of calls the memoized codes never
\* shrink, an adapter is built at most once per code and later calls for
\* the code use that same adapter, and every memoized code is a key of
\* language_configs.
C25_MemoAppendOnly == [](MemoWithinConfigs) /\ [][MemoOnlyGrows]_vars

\* C25 witness: adapt_prompt returned while the memo holds two adapters
C25_Witness ==
    /\ call.op = "adapt_prompt"
    /\ result.exc = "none"
    /\ Cardinality(DOMAIN evaluator.adapters) >= 2

(***************************************************************************)
(* Properties of the rubric's lowest scores (SpecMetrics).                 *)
(***************************************************************************)
\* C29: evaluate_cultural_appropriateness never returns an overall_score
\* below 2.5 (250 hundredths): greeting and formality_match score at least
\* 2, cultural_markers and closing at least 3, so the ratings 'Poor' and
\* 'Inappropriate' are never given.
C29_NoScoreBelowAdequate ==
    call.op = "evaluate_cultural_appropriateness" =>
        /\ result.value.criteria.greeting.score >= 2
        /\ result.value.criteria.formality_match.score >= 2
        /\ result.value.criteria.cultural_markers.score >= 3
        /\ result.value.criteria.closing.score >= 3
        /\ result.value.overall_score >= 250
        /\ result.value.overall_rating \notin {"Poor", "Inappropriate"}

\* C29 witness: a formal Spanish text with the casual greeting and the
\* casual pronoun scores 2 on both and stands at 2.5 exactly
C29_Witness ==
    /\ call.op = "evaluate_cultural_appropriateness"
    /\ call.language = "es"
    /\ call.formality = "formal"
    /\ result.value.criteria.greeting.score = 2
    /\ result.value.criteria.formality_match.score = 2
    /\ result.value.overall_score = 250
    /\ result.value.overall_rating = "Adequate"

(***************************************************************************)
(* CacheManager (storage/cache_manager.py). A directory is a mapping from  *)
(* file names to files; a file is <<>> when empty and <<data>> when it     *)
(* holds the JSON text of data. Timestamps of the metadata are left out.   *)
(***************************************************************************)
\* cache_key = f"{template_id}_{language}_{formality}"
CacheKey(template_id, language, formality) ==
    template_id \o <<"_">> \o language \o <<"_">> \o Chars(formality)

\* CacheManager._get_variant_cache_path(...).name
VariantCachePath(template_id, language, formality) ==
    CacheKey(template_id, language, formality) \o <<".","j","s","o","n">>

\* CacheManager._get_response_cache_path(...).name
ResponseCachePath(template_id, language, formality) ==
    CacheKey(template_id, language, formality)
        \o <<"_","r","e","s","p","o","n","s","e",".","j","s","o","n">>

\* the metadata of an empty cache
NewMetadata == [version |-> "1.0.0", cached_variants |-> EmptyDict, cached_responses |-> EmptyDict]

\* CacheManager(cache_dir) on a directory that does not exist yet
CacheManager ==
    [constructed |-> TRUE, prompts_dir |-> EmptyDict, responses_dir |-> EmptyDict,
     metadata |-> NewMetadata, metadata_file |-> <<>>]

\* CacheManager.cache_variant(variant): open(cache_path, 'w') creates or
\* empties the file before variant.to_dict() is evaluated, and to_dict
\* raises AttributeError on a formality that is a plain string
CacheVariant(self, variant) ==
    LET formality_str == IF variant.formality \in FormalityLevelMembers
                         THEN FormalityLevelValue[variant.formality]
                         ELSE variant.formality
        name == VariantCachePath(variant.template_id, variant.language, formality_str)
        cache_key == CacheKey(variant.template_id, variant.language, formality_str)
        metadata == [self.metadata EXCEPT
                        !.cached_variants = (cache_key :> [file |-> name]) @@ @]
    IN  IF variant.formality \notin FormalityLevelMembers
        THEN [exc |-> "AttributeError", value |-> <<>>,
              self |-> [self EXCEPT !.prompts_dir = (name :> <<>>) @@ @]]
        ELSE [exc |-> "none", value |-> <<>>,
              self |-> [self EXCEPT
                          !.prompts_dir = (name :> <<PromptVariantToDict(variant)>>) @@ @,
                          !.metadata = metadata,
                          !.metadata_file = <<metadata>>]]

\* CacheManager.get_cached_variant(template_id, language, formality): None
\* (<<>>) or the variant; json.load of an empty file raises JSONDecodeError
GetCachedVariant(self, template_id, language, formality, now) ==
    LET name == VariantCachePath(template_id, language, formality)
    IN  IF name \notin DOMAIN self.prompts_dir THEN Return(<<>>)
        ELSE IF self.prompts_dir[name] = <<>> THEN Raise("JSONDecodeError")
        ELSE Only({ IF made.exc # "none" THEN made ELSE Return(<<made.value>>)
                    : made \in {PromptVariantFromDict(self.prompts_dir[name][1], now)} })

\* CacheManager.cache_response(response, template_id, language, formality)
CacheResponse(self, response, template_id, language, formality) ==
    LET name == ResponseCachePath(template_id, language, formality)
        cache_key == CacheKey(template_id, language, formality)
        metadata == [self.metadata EXCEPT
                        !.cached_responses =
                            (cache_key :> [file |-> name, model |-> response.model]) @@ @]
    IN  [exc |-> "none", value |-> <<>>,
         self |-> [self EXCEPT
                     !.responses_dir = (name :> <<LLMResponseToDict(response)>>) @@ @,
                     !.metadata = metadata,
                     !.metadata_file = <<metadata>>]]

\* CacheManager.clear_cache(confirm)
ClearCache(self, confirm) ==
    IF ~confirm
    THEN [exc |-> "ValueError", value |-> <<>>, self |-> self]
    ELSE [exc |-> "none", value |-> <<>>,
          self |-> [self EXCEPT !.prompts_dir = EmptyDict, !.responses_dir = EmptyDict,
                                !.metadata = NewMetadata,
                                !.metadata_file = <<NewMetadata>>]]

\* CacheManager.validate_cache(): the statistics, with the issues as a set
ValidateCache(self) ==
    LET variants_in_metadata == Cardinality(DOMAIN self.metadata.cached_variants)
        variants_on_disk == Cardinality(DOMAIN self.prompts_dir)
        responses_in_metadata == Cardinality(DOMAIN self.metadata.cached_responses)
        responses_on_disk == Cardinality(DOMAIN self.responses_dir)
        issues ==
            { [issue |-> "Mismatch between metadata and disk for variants", file |-> <<>>] :
                  x \in IF variants_in_metadata # variants_on_disk THEN {1} ELSE {} }
            \cup { [issue |-> "Mismatch between metadata and disk for responses",
                    file |-> <<>>] :
                      x \in IF responses_in_metadata # responses_on_disk THEN {1} ELSE {} }
            \cup { [issue |-> "Missing variant file", file |-> info.file] :
                      info \in { self.metadata.cached_variants[key] :
                                    key \in { k \in DOMAIN self.metadata.cached_variants :
                                                self.metadata.cached_variants[k].file
                                                   \notin DOMAIN self.prompts_dir } } }
            \cup { [issue |-> "Missing response file", file |-> info.file] :
                      info \in { [file |-> self.metadata.cached_responses[key].file] :
                                    key \in { k \in DOMAIN self.metadata.cached_responses :
                                                self.metadata.cached_responses[k].file
                                                   \notin DOMAIN self.responses_dir } } }
    IN  Return([variants_in_metadata |-> variants_in_metadata,
                variants_on_disk |-> variants_on_disk,
                responses_in_metadata |-> responses_in_metadata,
                responses_on_disk |-> responses_on_disk,
                issues |-> issues,
                valid |-> issues = {}])

(***************************************************************************)
(* The cache specification: one CacheManager on an empty directory.        *)
(***************************************************************************)
\* template ids and language codes, with and without the separator
CacheTemplateIds == { <<"t">>, <<"t","_","x">> }
CacheLanguages == { <<"d","e">>, <<"x","_","d","e">> }

\* the variants a caller caches: formality as the enum member or as its
\* value string, and a content that tells the variants apart
CacheVariants ==
    { [template_id |-> t, language |-> l, formality |-> f,
       adapted_content |-> t \o <<" ">> \o l, adaptation_notes |-> <<>>,
       timestamp |-> "2025-01-01T09:00:00", metadata |-> EmptyDict] :
      t \in CacheTemplateIds, l \in CacheLanguages, f \in {"FORMAL", "formal"} }

\* the responses a caller caches, with the triple each belongs to
CacheResponses ==
    { [template_id |-> triple[1], language |-> triple[2], formality |-> "formal",
       response |-> [variant_id |-> CacheKey(triple[1], triple[2], "formal"),
                     content |-> triple[1] \o <<" ">> \o triple[2], model |-> "mock-model",
                     tokens_input |-> 12, tokens_output |-> 34,
                     timestamp |-> "2025-01-01T09:00:00", metadata |-> EmptyDict]] :
      triple \in { << <<"t","_","x">>, <<"d","e">> >>, << <<"t">>, <<"x","_","d","e">> >> } }

InitCache ==
    /\ template = PromptTemplate("test_prompt", <<>>, "business", <<>>)
    /\ adapter = NoAdapter
    /\ evaluator = NoEvaluator
    /\ cache = CacheManager
    /\ tracker = NoTracker
    /\ call = NoCall
    /\ result = NoResult

\* cache.cache_variant(variant)
CacheVariantCall ==
    /\ call = NoCall
    /\ \E variant \in CacheVariants :
          \E r \in {CacheVariant(cache, variant)} :
              /\ call' = [op |-> "cache_variant", variant |-> variant]
              /\ result' = [exc |-> r.exc, value |-> r.value]
              /\ cache' = r.self
    /\ UNCHANGED <<template, adapter, evaluator, tracker>>

\* cache.get_cached_variant(template_id, language, formality)
GetCachedVariantCall ==
    /\ call = NoCall
    /\ \E template_id \in CacheTemplateIds, language \in CacheLanguages, now \in Clock :
          /\ call' = [op |-> "get_cached_variant", template_id |-> template_id,
                      language |-> language, formality |-> "formal"]
          /\ result' = GetCachedVariant(cache, template_id, language, "formal", now)
    /\ UNCHANGED <<template, adapter, evaluator, cache, tracker>>

\* cache.cache_response(response, template_id, language, formality)
CacheResponseCall ==
    /\ call = NoCall
    /\ \E c \in CacheResponses :
          \E r \in {CacheResponse(cache, c.response, c.template_id, c.language,
                                  c.formality)} :
              /\ call' = [op |-> "cache_response", response |-> c.response,
                          template_id |-> c.template_id, language |-> c.language,
                          formality |-> c.formality]
              /\ result' = [exc |-> r.exc, value |-> r.value]
              /\ cache' = r.self
    /\ UNCHANGED <<template, adapter, evaluator, tracker>>

\* cache.clear_cache(confirm); before is the cache as the call found it
ClearCacheCall ==
    /\ call = NoCall
    /\ \E confirm \in BOOLEAN :
          \E r \in {ClearCache(cache, confirm)} :
              /\ call' = [op |-> "clear_cache", confirm |-> confirm, before |-> cache]
              /\ result' = [exc |-> r.exc, value |-> r.value]
              /\ cache' = r.self
    /\ UNCHANGED <<template, adapter, evaluator, tracker>>

\* cache.validate_cache()
ValidateCacheCall ==
    /\ call = NoCall
    /\ call' = [op |-> "validate_cache"]
    /\ result' = ValidateCache(cache)
    /\ UNCHANGED <<template, adapter, evaluator, cache, tracker>>

NextCache ==
    \/ CacheVariantCall
    \/ GetCachedVariantCall
    \/ CacheResponseCall
    \/ ClearCacheCall
    \/ ValidateCacheCall
    \/ ReturnToCaller

SpecCache == InitCache /\ [][NextCache]_vars

(***************************************************************************)
(* Properties of the cache (SpecCache).                                    *)
(***************************************************************************)
\* C22: the (template_id, language, formality) key is collision-free, also
\* for ids and codes that contain '_': a cached variant is never returned
\* for another triple, and no two triples share a cache key (a variant_id).
C22_KeysCollisionFree ==
    /\ (call.op = "get_cached_variant" /\ result.exc = "none" /\ result.value # <<>>)
       => /\ result.value[1].template_id = call.template_id
          /\ result.value[1].language = call.language
    /\ call.op = "cache_variant"
       => \A t \in CacheTemplateIds, l \in CacheLanguages :
             CacheKey(t, l, "formal")
                = CacheKey(call.variant.template_id, call.variant.language, "formal")
             => t = call.variant.template_id /\ l = call.variant.language

\* C30: with one CacheManager on an empty directory, validate_cache()
\* reports valid after any sequence of cache_variant, cache_response and
\* clear_cache(confirm=True) calls, the entries of the metadata matching
\* the files on disk; clear_cache(confirm=False) raises ValueError and
\* changes neither files nor metadata.
C30_ValidateReportsValid ==
    /\ call.op = "validate_cache"
       => /\ result.value.valid
          /\ result.value.variants_in_metadata = result.value.variants_on_disk
          /\ result.value.responses_in_metadata = result.value.responses_on_disk
    /\ (call.op = "clear_cache" /\ ~call.confirm)
       => result.exc = "ValueError" /\ cache = call.before

(***************************************************************************)
(* ExperimentTracker (storage/experiment_tracker.py). The tracker variable *)
(* also carries the clock datetime.utcnow() reads, as a second and the     *)
(* microsecond within it.                                                  *)
(***************************************************************************)
\* whole seconds the clock runs through, and experiments created at most
MaxSeconds == 2
MaxExperiments == 3

\* f"exp_{datetime.utcnow().strftime('%Y%m%d_%H%M%S')}": the microsecond is
\* not part of the format
ExperimentId(now) == <<"exp_", now.second>>

\* ExperimentTracker(experiments_dir) on a directory that does not exist yet
ExperimentTracker ==
    [constructed |-> TRUE, experiments_dir |-> EmptyDict,
     index |-> [experiments |-> <<>>], index_file |-> <<>>,
     utcnow |-> [second |-> 0, microsecond |-> 0]]

\* ExperimentTracker.create_experiment(name, config, metadata) at the time
\* now: _save_experiment writes f"{exp_id}.json", then the index entry is
\* appended and the index saved
CreateExperiment(self, name, config, metadata, now) ==
    LET exp_id == ExperimentId(now)
        experiment == [id |-> exp_id, name |-> name, config |-> config,
                       started_at |-> now, completed_at |-> <<>>, status |-> "running",
                       results_summary |-> EmptyDict, metadata |-> metadata]
        index == [self.index EXCEPT
                     !.experiments = Append(@, [id |-> exp_id, name |-> name,
                                                started_at |-> experiment.started_at,
                                                status |-> experiment.status])]
    IN  [exc |-> "none", value |-> experiment,
         self |-> [self EXCEPT
                     !.experiments_dir = (<<exp_id, ".json">> :> <<experiment>>) @@ @,
                     !.index = index,
                     !.index_file = <<index>>]]

(***************************************************************************)
(* The tracker specification: one ExperimentTracker on an empty directory. *)
(***************************************************************************)
\* the configuration experiments are created with
TrackerConfig ==
    [prompt_ids |-> <<"test_prompt">>, languages |-> <<"de">>,
     formality_levels |-> <<"formal">>, model |-> "mock-model", temperature |-> "0.7",
     max_tokens |-> 1024, demo_mode |-> FALSE]

InitTracker ==
    /\ template = PromptTemplate("test_prompt", <<>>, "business", <<>>)
    /\ adapter = NoAdapter
    /\ evaluator = NoEvaluator
    /\ cache = NoCache
    /\ tracker = ExperimentTracker
    /\ call = NoCall
    /\ result = NoResult

\* tracker.create_experiment(name, config)
CreateExperimentCall ==
    /\ call = NoCall
    /\ Len(tracker.index.experiments) < MaxExperiments
    /\ \E name \in {"baseline", "rerun"} :
          \E r \in {CreateExperiment(tracker, name, TrackerConfig, EmptyDict,
                                     tracker.utcnow)} :
              /\ call' = [op |-> "create_experiment", name |-> name, before |-> tracker]
              /\ result' = [exc |-> r.exc, value |-> r.value]
              /\ tracker' = r.self
    /\ UNCHANGED <<template, adapter, evaluator, cache>>

\* time passes between two calls: to the next microsecond or the next second
ClockTick ==
    /\ call = NoCall
    /\ \/ /\ tracker.utcnow.microsecond = 0
          /\ tracker' = [tracker EXCEPT !.utcnow.microsecond = 1]
       \/ /\ tracker.utcnow.second < MaxSeconds
          /\ tracker' = [tracker EXCEPT !.utcnow = [second |-> @.second + 1,
                                                    microsecond |-> 0]]
    /\ UNCHANGED <<template, adapter, evaluator, cache, call, result>>

NextTracker ==
    \/ CreateExperimentCall
    \/ ClockTick
    \/ ReturnToCaller

SpecTracker == InitTracker /\ [][NextTracker]_vars

(***************************************************************************)
(* Properties of the tracker (SpecTracker).                                *)
(***************************************************************************)
\* C27: create_experiment returns an ID different from all earlier ones,
\* also for two calls within one clock second: no experiment file is
\* overwritten and the index never holds two entries with the same id.
C27_ExperimentIdsUnique ==
    /\ \A i, j \in DOMAIN tracker.index.experiments :
          i # j => tracker.index.experiments[i].id # tracker.index.experiments[j].id
    /\ Cardinality(DOMAIN tracker.experiments_dir) = Len(tracker.index.experiments)
    /\ call.op = "create_experiment"
       => \A entry \in {call.before.index.experiments[i] :
                           i \in DOMAIN call.before.index.experiments} :
             entry.id # result.value.id

====
